---- MODULE Spec2Model ----
(***************************************************************************)
(* A model of the isla symbolic executor: the per-path interpreter         *)
(* (isla-lib/src/executor.rs, `run`), the single-threaded driver           *)
(* (`start_single`) and the work-stealing engine with its quiescence       *)
(* protocol (`start_multi`).                                               *)
(*                                                                         *)
(* Conventions.  Program counters are 0-based as in the source, so the     *)
(* instruction at pc is instrs[pc + 1].  Identifiers (interned u32 in the  *)
(* source) are strings.  SMT booleans are the integers 0 and 1 so that     *)
(* every solver model is a function into the integers.                     *)
(***************************************************************************)
EXTENDS Integers, Sequences, FiniteSets, TLC

(***************************************************************************)
(* Bounds of the model.                                                    *)
(***************************************************************************)
\* Widest bitvector sort whose values the solver model enumerates exactly.
DomBits == 2
\* Most Response messages the orchestrator lets pile up in one poke channel.
MaxPoke == 5

(***************************************************************************)
(* Values (ast::Val), types (ast::Ty), locations (ast::Loc).               *)
(***************************************************************************)
VUnit == [tag |-> "Unit"]
VBool(b) == [tag |-> "Bool", b |-> b]
VI64(i) == [tag |-> "I64", i |-> i]
VBits(len, bits) == [tag |-> "Bits", len |-> len, bits |-> bits]
VSymbolic(v) == [tag |-> "Symbolic", v |-> v]
VUninitialized(ty) == [tag |-> "Uninitialized", ty |-> ty]
VStruct(fields) == [tag |-> "Struct", fields |-> fields]
VVector(elems) == [tag |-> "Vector", elems |-> elems]
VString(s) == [tag |-> "String", s |-> s]

TyUnit == [k |-> "Unit"]
TyBool == [k |-> "Bool"]
TyBit == [k |-> "Bit"]
TyI64 == [k |-> "I64"]
TyI128 == [k |-> "I128"]
TyString == [k |-> "String"]
TyBits(sz) == [k |-> "Bits", sz |-> sz]
TyStruct(name) == [k |-> "Struct", name |-> name]
TyEnum(name) == [k |-> "Enum", name |-> name]
TyVector(ty) == [k |-> "Vector", ty |-> ty]

LocId(id) == [l |-> "Id", id |-> id]
LocField(loc, f) == [l |-> "Field", loc |-> loc, f |-> f]

\* HashMap::insert
Insert(map, key, value) ==
    [x \in (DOMAIN map) \cup {key} |-> IF x = key THEN value ELSE map[x]]

EmptyMap == [x \in {} |-> VUnit]

(***************************************************************************)
(* The solver binding (isla_smt), modelled from its interface: a solver    *)
(* is its fresh-symbol counter and the trace of definitions added so far.  *)
(***************************************************************************)
SortBool == [s |-> "Bool"]
SortBitVec(w) == [s |-> "BitVec", w |-> w]

DeclareConst(v, sort) == [def |-> "DeclareConst", v |-> v, sort |-> sort]
DefineConst(v, e) == [def |-> "DefineConst", v |-> v, e |-> e]
AssertDef(e) == [def |-> "Assert", e |-> e]

SmtVar(v) == [op |-> "Var", v |-> v]
SmtNot(a) == [op |-> "Not", a |-> a]
SmtEq(a, b) == [op |-> "Eq", a |-> a, b |-> b]
SmtBvult(a, b) == [op |-> "Bvult", a |-> a, b |-> b]
SmtBits(len, bits) == [op |-> "Bits", len |-> len, bits |-> bits]

\* primop::smt_u8
smt_u8(n) == SmtBits(8, n)

RECURSIVE Pow2(_)
Pow2(n) == IF n = 0 THEN 1 ELSE 2 * Pow2(n - 1)

NewSolver == [next |-> 0, trace |-> <<>>]

\* Solver::fresh
Fresh(solver) == [sym |-> solver.next, solver |-> [solver EXCEPT !.next = @ + 1]]

\* Solver::add
Add(solver, d) == [solver EXCEPT !.trace = Append(@, d)]

RECURSIVE SmtEval(_, _)
SmtEval(e, m) ==
    CASE e.op = "Var" -> m[e.v]
      [] e.op = "Not" -> 1 - SmtEval(e.a, m)
      [] e.op = "Eq" -> IF SmtEval(e.a, m) = SmtEval(e.b, m) THEN 1 ELSE 0
      [] e.op = "Bvult" -> IF SmtEval(e.a, m) < SmtEval(e.b, m) THEN 1 ELSE 0
      [] e.op = "Bits" -> e.bits

Declared(trace) ==
    {trace[i].v : i \in {j \in 1..Len(trace) : trace[j].def \in {"DeclareConst", "DefineConst"}}}

SortMax(sort) ==
    IF sort.s = "Bool" THEN 1
    ELSE Pow2(IF sort.w < DomBits THEN sort.w ELSE DomBits) - 1

\* A model satisfies a trace when every declared constant is within its sort,
\* every defined constant equals its definition and every assertion is true.
Satisfies(m, trace) ==
    \A i \in 1..Len(trace) :
        CASE trace[i].def = "DeclareConst" -> m[trace[i].v] <= SortMax(trace[i].sort)
          [] trace[i].def = "DefineConst" -> m[trace[i].v] = SmtEval(trace[i].e, m)
          [] trace[i].def = "Assert" -> SmtEval(trace[i].e, m) = 1

IsSat(trace) ==
    \E m \in [Declared(trace) -> 0..(Pow2(DomBits) - 1)] : Satisfies(m, trace)

\* Solver::check_sat
CheckSat(solver) == IsSat(solver.trace)

\* Solver::check_sat_with: the expression is assumed for this query only.
CheckSatWith(solver, e) == IsSat(Append(solver.trace, AssertDef(e)))

\* Solver::checkpoint_with: the current state with one more definition pending.
CheckpointWith(solver, d) == [next |-> solver.next, trace |-> Append(solver.trace, d)]

\* Solver::from_checkpoint: a solver in a new context replaying the checkpoint.
FromCheckpoint(checkpoint) == [next |-> checkpoint.next, trace |-> checkpoint.trace]

(***************************************************************************)
(* SharedState: the type and function tables the programs below use.       *)
(***************************************************************************)
\* shared_state.structs: name -> [(field, Ty)]
Structs == [S |-> << <<"a", TyI64>>, <<"b", TyI64>> >>,
            T |-> << <<"a", TyBool>>, <<"c", TyString>> >>]
\* shared_state.enums: name -> [member]
Enums == [E |-> <<"E0", "E1">>]
\* shared_state.enum_members: id -> ordinal
EnumMembers == [E0 |-> 0, E1 |-> 1]

(***************************************************************************)
(* symbolic: a fresh value of a type.                                      *)
(***************************************************************************)
SymOk(val, solver) == [st |-> "ok", val |-> val, solver |-> solver, err |-> "none"]
SymErr(err, solver) == [st |-> "err", val |-> VUnit, solver |-> solver, err |-> err]
SymPanic(solver) == [st |-> "panic", val |-> VUnit, solver |-> solver, err |-> "panic"]

SmtTy(ty) ==
    CASE ty.k = "I64" -> SortBitVec(64)
      [] ty.k = "I128" -> SortBitVec(128)
      [] ty.k = "Bits" -> SortBitVec(ty.sz)
      [] ty.k = "Bool" -> SortBool
      [] ty.k = "Bit" -> SortBitVec(1)

RECURSIVE symbolic(_, _)
RECURSIVE SymbolicFields(_, _, _, _)

\* A mutation of SymbolicFields: the fields of a fresh struct are left
\* uninitialised, to be made symbolic one by one when read.
SymbolicFields_Lazy(field_types, i, solver, acc) ==
    SymOk(VStruct([f \in {field_types[k][1] : k \in 1..Len(field_types)} |->
                     VUninitialized(field_types[CHOOSE k \in 1..Len(field_types) : field_types[k][1] = f][2])]),
          solver)

\* The iterator over field_types of the Ty::Struct arm: the fields are made
\* symbolic in declaration order and the first error ends the collection.
SymbolicFields(field_types, i, solver, acc) ==
    IF i > Len(field_types) THEN SymOk(VStruct(acc), solver)
    ELSE LET OnField(r) ==
                 IF r.st # "ok" THEN r
                 ELSE SymbolicFields(field_types, i + 1, r.solver, Insert(acc, field_types[i][1], r.val))
         IN  OnField(symbolic(field_types[i][2], solver))

symbolic(ty, solver) ==
    CASE ty.k = "Unit" -> SymOk(VUnit, solver)
      [] ty.k = "Bits" /\ ty.sz = 0 -> SymOk(VBits(0, 0), solver)
      [] ty.k \in {"I64", "I128", "Bits", "Bool", "Bit"} ->
            LET f == Fresh(solver)
            IN  SymOk(VSymbolic(f.sym), Add(f.solver, DeclareConst(f.sym, SmtTy(ty))))
      [] ty.k = "Struct" ->
            IF ty.name \in DOMAIN Structs
            THEN SymbolicFields(Structs[ty.name], 1, solver, EmptyMap)
            ELSE SymErr("Unreachable", solver)
      [] ty.k = "Enum" ->
            IF ty.name \notin DOMAIN Enums THEN SymPanic(solver)
            ELSE LET enum_size == Len(Enums[ty.name])
                     f == Fresh(solver)
                     s1 == Add(f.solver, DeclareConst(f.sym, SortBitVec(8)))
                     s2 == Add(s1, AssertDef(SmtBvult(SmtVar(f.sym), smt_u8(enum_size))))
                 IN  SymOk(VSymbolic(f.sym), s2)
      [] OTHER -> SymErr("NoSymbolicType", solver)

(***************************************************************************)
(* Variable lookup with lazy initialisation.                               *)
(***************************************************************************)
\* A mutation of get_and_initialize: the fresh value is returned but not
\* written back into the slot.
get_and_initialize_NoWriteBack(v, vars, solver) ==
    IF v \in DOMAIN vars
    THEN IF vars[v].tag = "Uninitialized"
         THEN LET OnSym(r) ==
                      IF r.st # "ok"
                      THEN [st |-> r.st, err |-> r.err, found |-> FALSE, val |-> VUnit,
                            vars |-> vars, solver |-> r.solver]
                      ELSE [st |-> "ok", err |-> "none", found |-> TRUE, val |-> r.val,
                            vars |-> vars, solver |-> r.solver]
              IN  OnSym(symbolic(vars[v].ty, solver))
         ELSE [st |-> "ok", err |-> "none", found |-> TRUE, val |-> vars[v],
               vars |-> vars, solver |-> solver]
    ELSE [st |-> "ok", err |-> "none", found |-> FALSE, val |-> VUnit,
          vars |-> vars, solver |-> solver]

\* The result of a lookup: found tells Some from None; vars is the map after
\* the write-back of a freshly initialised value.
get_and_initialize(v, vars, solver) ==
    IF v \in DOMAIN vars
    THEN IF vars[v].tag = "Uninitialized"
         THEN LET OnSym(r) ==
                      IF r.st # "ok"
                      THEN [st |-> r.st, err |-> r.err, found |-> FALSE, val |-> VUnit,
                            vars |-> vars, solver |-> r.solver]
                      ELSE [st |-> "ok", err |-> "none", found |-> TRUE, val |-> r.val,
                            vars |-> Insert(vars, v, r.val), solver |-> r.solver]
              IN  OnSym(symbolic(vars[v].ty, solver))
         ELSE [st |-> "ok", err |-> "none", found |-> TRUE, val |-> vars[v],
               vars |-> vars, solver |-> solver]
    ELSE [st |-> "ok", err |-> "none", found |-> FALSE, val |-> VUnit,
          vars |-> vars, solver |-> solver]

\* Results of the evaluator and of assign: st is "ok", "err" (an Error value
\* propagated by `?`) or "panic".
EvOk(val, vars, globals, solver) ==
    [st |-> "ok", err |-> "none", val |-> val, vars |-> vars, globals |-> globals, solver |-> solver]
EvErr(err, vars, globals, solver) ==
    [st |-> "err", err |-> err, val |-> VUnit, vars |-> vars, globals |-> globals, solver |-> solver]
EvPanic(vars, globals, solver) ==
    [st |-> "panic", err |-> "panic", val |-> VUnit, vars |-> vars, globals |-> globals, solver |-> solver]
EvFail(st, err, vars, globals, solver) ==
    [st |-> st, err |-> err, val |-> VUnit, vars |-> vars, globals |-> globals, solver |-> solver]

\* The lookup chain shared by eval_exp (Exp::Id) and get_loc_and_initialize
\* (Loc::Id): locals, then globals, then enum members.
LookupId(id, vars, globals, solver) ==
    LET OnGlobal(b) ==
            IF b.st # "ok" THEN EvFail(b.st, b.err, vars, globals, b.solver)
            ELSE IF b.found THEN EvOk(b.val, vars, b.vars, b.solver)
            ELSE IF id \in DOMAIN EnumMembers
                 THEN EvOk(VBits(8, EnumMembers[id]), vars, globals, solver)
                 ELSE EvPanic(vars, globals, solver)
        OnLocal(a) ==
            IF a.st # "ok" THEN EvFail(a.st, a.err, vars, globals, a.solver)
            ELSE IF a.found THEN EvOk(a.val, a.vars, globals, a.solver)
            ELSE OnGlobal(get_and_initialize(id, globals, solver))
    IN  OnLocal(get_and_initialize(id, vars, solver))

get_loc_and_initialize(loc, vars, globals, solver) ==
    IF loc.l = "Id" THEN LookupId(loc.id, vars, globals, solver)
    ELSE EvPanic(vars, globals, solver)

(***************************************************************************)
(* Expressions (ast::Exp) and the expression evaluator.                    *)
(***************************************************************************)
EId(id) == [e |-> "Id", id |-> id]
EBool(b) == [e |-> "Bool", b |-> b]
EI64(i) == [e |-> "I64", i |-> i]
EUnit == [e |-> "Unit"]
EBits(len, bits) == [e |-> "Bits", len |-> len, bits |-> bits]
EString(s) == [e |-> "String", s |-> s]
EUndefined(ty) == [e |-> "Undefined", ty |-> ty]
ECall(op, args) == [e |-> "Call", op |-> op, args |-> args]
EField(exp, f) == [e |-> "Field", exp |-> exp, f |-> f]

\* Op codes: Not and Unsigned have an arm in eval_exp; Lteq stands for the op
\* codes that have none.  The arms that only forward to the primitive
\* catalogue (Gt, Add, Bvor, ...) are not modelled.
OpNot == [o |-> "Not"]
OpUnsigned(len) == [o |-> "Unsigned", len |-> len]
OpLteq == [o |-> "Lteq"]

\* primop::not_bool, from the primitive catalogue: negation of a concrete or
\* symbolic boolean; the symbolic result is bound by a define-const.
not_bool(x, solver) ==
    CASE x.tag = "Bool" -> SymOk(VBool(~x.b), solver)
      [] x.tag = "Symbolic" ->
            LET f == Fresh(solver)
            IN  SymOk(VSymbolic(f.sym), Add(f.solver, DefineConst(f.sym, SmtNot(SmtVar(x.v)))))
      [] OTHER -> SymErr("Type", solver)

RECURSIVE eval_exp(_, _, _, _)
RECURSIVE EvalArgs(_, _, _, _, _, _)

\* args.iter().map(eval_exp).collect(): left to right, stopping at the first
\* error; the value of the result is the sequence of argument values.
EvalArgs(args, i, vars, globals, solver, acc) ==
    IF i > Len(args) THEN EvOk(acc, vars, globals, solver)
    ELSE LET OnArg(r) ==
                 IF r.st # "ok" THEN r
                 ELSE EvalArgs(args, i + 1, r.vars, r.globals, r.solver, Append(acc, r.val))
         IN  OnArg(eval_exp(args[i], vars, globals, solver))

eval_exp(exp, vars, globals, solver) ==
    CASE exp.e = "Id" -> LookupId(exp.id, vars, globals, solver)
      [] exp.e = "I64" -> EvOk(VI64(exp.i), vars, globals, solver)
      [] exp.e = "Unit" -> EvOk(VUnit, vars, globals, solver)
      [] exp.e = "Bool" -> EvOk(VBool(exp.b), vars, globals, solver)
      [] exp.e = "Bits" -> EvOk(VBits(exp.len, exp.bits), vars, globals, solver)
      [] exp.e = "String" -> EvOk(VString(exp.s), vars, globals, solver)
      [] exp.e = "Undefined" ->
            LET OnUndefined(r) ==
                    IF r.st # "ok" THEN EvFail(r.st, r.err, vars, globals, r.solver)
                    ELSE EvOk(r.val, vars, globals, r.solver)
            IN  OnUndefined(symbolic(exp.ty, solver))
      [] exp.e = "Call" ->
            LET OnOp(a, r) ==
                    IF r.st # "ok" THEN EvFail(r.st, r.err, a.vars, a.globals, r.solver)
                    ELSE EvOk(r.val, a.vars, a.globals, r.solver)
                OnArgs(a) ==
                    IF a.st # "ok" THEN a
                    ELSE CASE exp.op.o = "Not" -> OnOp(a, not_bool(a.val[1], a.solver))
                           [] exp.op.o = "Unsigned" -> OnOp(a, symbolic(TyBits(exp.op.len), a.solver))
                           [] OTHER -> EvErr("Unimplemented", a.vars, a.globals, a.solver)
            IN  OnArgs(EvalArgs(exp.args, 1, vars, globals, solver, <<>>))
      [] exp.e = "Field" ->
            LET OnStruct(r) ==
                    IF r.st # "ok" THEN r
                    ELSE IF r.val.tag = "Struct" /\ exp.f \in DOMAIN r.val.fields
                         THEN EvOk(r.val.fields[exp.f], r.vars, r.globals, r.solver)
                         ELSE EvPanic(r.vars, r.globals, r.solver)
            IN  OnStruct(eval_exp(exp.exp, vars, globals, solver))
      [] OTHER -> EvPanic(vars, globals, solver)

\* A mutation of assign: an identifier is always written to the local
\* environment.
RECURSIVE assign_AlwaysLocal(_, _, _, _, _)
assign_AlwaysLocal(loc, v, vars, globals, solver) ==
    CASE loc.l = "Id" -> EvOk(VUnit, Insert(vars, loc.id, v), globals, solver)
      [] loc.l = "Field" ->
            LET OnLoc(r) ==
                    IF r.st # "ok" THEN r
                    ELSE IF r.val.tag = "Struct" /\ loc.f \in DOMAIN r.val.fields
                         THEN assign_AlwaysLocal(loc.loc, VStruct(Insert(r.val.fields, loc.f, v)),
                                                 r.vars, r.globals, r.solver)
                         ELSE EvPanic(r.vars, r.globals, r.solver)
            IN  OnLoc(get_loc_and_initialize(loc.loc, vars, globals, solver))
      [] OTHER -> EvPanic(vars, globals, solver)

\* A mutation of assign: a local is looked up, and so initialised, before it
\* is written.
RECURSIVE assign_ReadsFirst(_, _, _, _, _)
assign_ReadsFirst(loc, v, vars, globals, solver) ==
    CASE loc.l = "Id" ->
            IF loc.id \in DOMAIN vars \/ loc.id = "RETURN"
            THEN LET OnRead(r) ==
                         IF r.st # "ok" THEN EvFail(r.st, r.err, vars, globals, r.solver)
                         ELSE EvOk(VUnit, Insert(r.vars, loc.id, v), globals, r.solver)
                 IN  OnRead(get_and_initialize(loc.id, vars, solver))
            ELSE EvOk(VUnit, vars, Insert(globals, loc.id, v), solver)
      [] loc.l = "Field" ->
            LET OnLoc(r) ==
                    IF r.st # "ok" THEN r
                    ELSE IF r.val.tag = "Struct" /\ loc.f \in DOMAIN r.val.fields
                         THEN assign_ReadsFirst(loc.loc, VStruct(Insert(r.val.fields, loc.f, v)),
                                                r.vars, r.globals, r.solver)
                         ELSE EvPanic(r.vars, r.globals, r.solver)
            IN  OnLoc(get_loc_and_initialize(loc.loc, vars, globals, solver))
      [] OTHER -> EvPanic(vars, globals, solver)

(***************************************************************************)
(* assign                                                                  *)
(***************************************************************************)
RECURSIVE assign(_, _, _, _, _)
assign(loc, v, vars, globals, solver) ==
    CASE loc.l = "Id" ->
            IF loc.id \in DOMAIN vars \/ loc.id = "RETURN"
            THEN EvOk(VUnit, Insert(vars, loc.id, v), globals, solver)
            ELSE EvOk(VUnit, vars, Insert(globals, loc.id, v), solver)
      [] loc.l = "Field" ->
            LET OnLoc(r) ==
                    IF r.st # "ok" THEN r
                    ELSE IF r.val.tag = "Struct" /\ loc.f \in DOMAIN r.val.fields
                         THEN assign(loc.loc, VStruct(Insert(r.val.fields, loc.f, v)),
                                     r.vars, r.globals, r.solver)
                         ELSE EvPanic(r.vars, r.globals, r.solver)
            IN  OnLoc(get_loc_and_initialize(loc.loc, vars, globals, solver))
      [] OTHER -> EvPanic(vars, globals, solver)

(***************************************************************************)
(* Instructions (ast::Instr), frames and the interpreter step.             *)
(***************************************************************************)
IDecl(v, ty) == [i |-> "Decl", v |-> v, ty |-> ty]
IInit(v, ty, e) == [i |-> "Init", v |-> v, ty |-> ty, e |-> e]
IJump(e, t) == [i |-> "Jump", e |-> e, t |-> t]
IGoto(t) == [i |-> "Goto", t |-> t]
ICopy(loc, e) == [i |-> "Copy", loc |-> loc, e |-> e]
IPrimopUnary(loc, f, arg) == [i |-> "PrimopUnary", loc |-> loc, f |-> f, arg |-> arg]
ICall(loc, f, args) == [i |-> "Call", loc |-> loc, f |-> f, args |-> args]
IEnd == [i |-> "End"]
\* Any instruction without an arm of its own in run.
IFailure == [i |-> "Failure"]

\* The instruction sequences frames refer to (the borrowed &[Instr]).
Code == [
    \* one fork; each arm returns a concrete boolean
    fork1 |-> << IDecl("x", TyBool),
                 IJump(EId("x"), 4),
                 ICopy(LocId("RETURN"), EBool(FALSE)),
                 IEnd,
                 ICopy(LocId("RETURN"), EBool(TRUE)),
                 IEnd >>,
    \* two forks, then a second jump on a decided variable in every arm
    fork2 |-> << IDecl("x", TyBool),
                 IInit("y", TyBool, EUndefined(TyBool)),
                 IJump(EId("x"), 4),
                 IJump(EId("y"), 4),
                 IJump(EId("x"), 6),
                 IFailure,
                 ICopy(LocId("RETURN"), EId("x")),
                 IEnd >>,
    \* jumps on concrete booleans, then on a value that is not a boolean
    conc |-> << IJump(EBool(FALSE), 3),
                IJump(EBool(TRUE), 3),
                IGoto(0),
                IInit("n", TyI64, EI64(3)),
                IJump(EId("n"), 0),
                IEnd >>,
    \* a jump on the register "c"
    reg |-> << IJump(EId("c"), 3),
               ICopy(LocId("RETURN"), EUnit),
               IEnd,
               ICopy(LocId("RETURN"), EBool(TRUE)),
               IEnd >>,
    \* Decl(0, Bool); Jump(Id(0), 3); Goto(3); End; Goto(0); End
    s1 |-> << IDecl("v", TyBool),
              IJump(EId("v"), 3),
              IGoto(3),
              IEnd,
              IGoto(0),
              IEnd >>,
    \* y = f_not(true); End with y
    s3 |-> << IDecl("y", TyBool),
              ICall(LocId("y"), "f_not", <<EBool(TRUE)>>),
              ICopy(LocId("RETURN"), EId("y")),
              IEnd >>,
    \* f_not(x: bool) -> bool returns not x
    f_not |-> << IPrimopUnary(LocId("RETURN"), "not", EId("x")),
                 IEnd >>,
    \* R = g(a) with a uninitialised at the call and R not a local
    nest |-> << IDecl("a", TyBool),
                ICall(LocId("R"), "g", <<EId("a")>>),
                ICopy(LocId("RETURN"), EId("R")),
                IEnd >>,
    \* g(x: bool) -> bool calls f_not, writes the register G and returns not x
    g |-> << IDecl("t", TyBool),
             ICall(LocId("t"), "f_not", <<EId("x")>>),
             ICopy(LocId("G"), EId("t")),
             ICopy(LocId("RETURN"), EId("t")),
             IEnd >>,
    \* one fork; the arm that goes on returns false, the pushed one true
    forkft |-> << IDecl("x", TyBool),
                  IJump(EId("x"), 4),
                  ICopy(LocId("RETURN"), EBool(TRUE)),
                  IEnd,
                  ICopy(LocId("RETURN"), EBool(FALSE)),
                  IEnd >>,
    \* two forks on one path: two Tasks are queued when the first path ends
    fork3 |-> << IDecl("x", TyBool),
                 IDecl("y", TyBool),
                 IJump(EId("x"), 3),
                 IJump(EId("y"), 4),
                 ICopy(LocId("RETURN"), EUnit),
                 IEnd >>,
    \* an operator the evaluator does not implement
    unimp |-> << ICopy(LocId("RETURN"), ECall(OpLteq, <<EI64(1), EI64(2)>>)),
                 IEnd >>,
    \* a variable of a struct type that does not exist
    unreach |-> << IDecl("u", TyStruct("U")),
                   ICopy(LocId("RETURN"), EId("u")),
                   IEnd >>,
    \* a fork whose true arm fails on the unknown struct and whose false arm
    \* exits
    forkfail |-> << IDecl("x", TyBool),
                    IJump(EId("x"), 4),
                    ICall(LocId("y"), "SAIL_EXIT", <<>>),
                    ICopy(LocId("RETURN"), EBool(TRUE)),
                    IDecl("u", TyStruct("U")),
                    ICopy(LocId("RETURN"), EId("u")),
                    IEnd >>,
    \* a call of a function that fails
    callfail |-> << ICall(LocId("y"), "h", <<>>),
                    ICopy(LocId("RETURN"), EBool(TRUE)),
                    IEnd >>,
    \* h() jumps on a value that is not a boolean
    h |-> << IInit("n", TyI64, EI64(3)),
             IJump(EId("n"), 0),
             ICopy(LocId("RETURN"), EBool(TRUE)),
             IEnd >>,
    \* an unconditional loop: a forward Goto, then a Jump and a Goto that go back
    loop |-> << IGoto(2),
                IGoto(0),
                IJump(EBool(TRUE), 1) >>,
    \* Decl(s, Struct S); Copy(s.a, 3); Copy(s.b, 4); End with s.a
    s4 |-> << IDecl("s", TyStruct("S")),
              ICopy(LocField(LocId("s"), "a"), EI64(3)),
              ICopy(LocField(LocId("s"), "b"), EI64(4)),
              ICopy(LocId("RETURN"), EField(EId("s"), "a")),
              IEnd >>,
    \* the caller writes the register W, then calls k(b, a) with both locals
    \* uninitialised, and returns the register G that k wrote
    call2 |-> << IDecl("a", TyBool),
                 IDecl("b", TyBool),
                 ICopy(LocId("W"), EBool(TRUE)),
                 ICall(LocId("R"), "k", <<EId("b"), EId("a")>>),
                 ICopy(LocId("RETURN"), EId("G")),
                 IEnd >>,
    \* k(p: bool, q: bool) copies the register W to the register G and returns p
    k |-> << ICopy(LocId("G"), EId("W")),
             ICopy(LocId("RETURN"), EId("p")),
             IEnd >>,
    \* the callee names a local of its caller
    hidden |-> << IInit("a", TyBool, EBool(TRUE)),
                  ICall(LocId("R"), "peek", <<>>),
                  ICopy(LocId("RETURN"), EId("R")),
                  IEnd >>,
    \* peek() returns a, which is neither a parameter nor a register
    peek |-> << ICopy(LocId("RETURN"), EId("a")),
                IEnd >>,
    \* a call of a function whose instructions do not finish with End
    callfall |-> << ICall(LocId("R"), "fall", <<>>),
                    ICopy(LocId("RETURN"), EBool(FALSE)),
                    IEnd >>,
    \* fall() writes the register G and has no End
    fall |-> << ICopy(LocId("G"), EBool(TRUE)) >>,
    \* an entry function without End
    nofin |-> << ICopy(LocId("G"), EBool(TRUE)) >>,
    \* x and n are declared, then written (Copy, Init) before they are read; c
    \* is read first, by the Jump that forks
    written |-> << IDecl("c", TyBool),
                   IDecl("x", TyBool),
                   IDecl("n", TyI64),
                   ICopy(LocId("x"), EBool(TRUE)),
                   IInit("n", TyI64, EI64(3)),
                   IJump(EId("c"), 7),
                   ICopy(LocId("x"), EBool(FALSE)),
                   ICopy(LocId("RETURN"), EId("n")),
                   IJump(EId("x"), 9),
                   IEnd >>
  ]

\* shared_state.functions: name -> (params, ret_ty, instrs)
Functions ==
    [f_not |-> [params |-> << <<"x", TyBool>> >>, instrs |-> "f_not"],
     g |-> [params |-> << <<"x", TyBool>> >>, instrs |-> "g"],
     h |-> [params |-> <<>>, instrs |-> "h"],
     k |-> [params |-> << <<"p", TyBool>>, <<"q", TyBool>> >>, instrs |-> "k"],
     peek |-> [params |-> <<>>, instrs |-> "peek"],
     fall |-> [params |-> <<>>, instrs |-> "fall"]]

\* Frame::new
NewFrame(args, registers, instrs) ==
    [pc |-> 0, backjumps |-> 0,
     vars |-> [id \in {args[k][1] : k \in 1..Len(args)} |->
                 VUninitialized(args[CHOOSE k \in 1..Len(args) :
                                        /\ args[k][1] = id
                                        /\ \A j \in (k + 1)..Len(args) : args[j][1] # id][2])],
     globals |-> Insert(registers, "HAVE_EXCEPTION", VBool(FALSE)),
     instrs |-> instrs, stack |-> <<>>]

\* unfreeze_frame and freeze_frame copy every field; a frozen and a thawed
\* frame are the same record here.
unfreeze_frame(frame) ==
    [pc |-> frame.pc, backjumps |-> frame.backjumps, vars |-> frame.vars,
     globals |-> frame.globals, instrs |-> frame.instrs, stack |-> frame.stack]

freeze_frame(frame) ==
    [pc |-> frame.pc, backjumps |-> frame.backjumps, vars |-> frame.vars,
     globals |-> frame.globals, instrs |-> frame.instrs, stack |-> frame.stack]

\* Results of one iteration of the loop of run.  st is "cont" (loop again),
\* "ok" (return Ok((val, frame))), "err" (return Err(err)) or "panic";
\* push holds the Task the iteration pushed on the worker's queue, if any.
Cont(frame, solver, push) ==
    [st |-> "cont", frame |-> frame, solver |-> solver, push |-> push, val |-> VUnit, err |-> "none"]
Done(val, frame, solver) ==
    [st |-> "ok", frame |-> frame, solver |-> solver, push |-> <<>>, val |-> val, err |-> "none"]
Fail(st, err, frame, solver) ==
    [st |-> st, frame |-> frame, solver |-> solver, push |-> <<>>, val |-> VUnit, err |-> err]

WithEnv(frame, r) == [frame EXCEPT !.vars = r.vars, !.globals = r.globals]

\* A mutation of JumpSymbolic: the checkpoint of the fork is taken from the
\* solver of the live path after its Assert(v).
JumpSymbolic_LateCheckpoint(fr, solver, v, target) ==
    LET test_true == SmtVar(v)
        test_false == SmtNot(SmtVar(v))
        can_be_true == CheckSatWith(solver, test_true)
        can_be_false == CheckSatWith(solver, test_false)
    IN  IF can_be_true /\ can_be_false
        THEN LET point == CheckpointWith(Add(solver, AssertDef(test_true)), AssertDef(test_false))
                 frozen == [freeze_frame(fr) EXCEPT !.pc = fr.pc + 1]
             IN  Cont([fr EXCEPT !.pc = target], Add(solver, AssertDef(test_true)),
                      << [frame |-> frozen, checkpoint |-> point] >>)
        ELSE IF can_be_true
        THEN Cont([fr EXCEPT !.pc = target], Add(solver, AssertDef(test_true)), <<>>)
        ELSE IF can_be_false
        THEN Cont([fr EXCEPT !.pc = fr.pc + 1], Add(solver, AssertDef(test_false)), <<>>)
        ELSE Fail("err", "Dead", fr, solver)

\* A mutation of JumpSymbolic: the fork pushes the true arm (target, v
\* pending) and the live path continues as the false arm.
JumpSymbolic_ForkSwapped(fr, solver, v, target) ==
    LET test_true == SmtVar(v)
        test_false == SmtNot(SmtVar(v))
        can_be_true == CheckSatWith(solver, test_true)
        can_be_false == CheckSatWith(solver, test_false)
    IN  IF can_be_true /\ can_be_false
        THEN LET point == CheckpointWith(solver, AssertDef(test_true))
                 frozen == [freeze_frame(fr) EXCEPT !.pc = target]
             IN  Cont([fr EXCEPT !.pc = fr.pc + 1], Add(solver, AssertDef(test_false)),
                      << [frame |-> frozen, checkpoint |-> point] >>)
        ELSE IF can_be_true
        THEN Cont([fr EXCEPT !.pc = target], Add(solver, AssertDef(test_true)), <<>>)
        ELSE IF can_be_false
        THEN Cont([fr EXCEPT !.pc = fr.pc + 1], Add(solver, AssertDef(test_false)), <<>>)
        ELSE Fail("err", "Dead", fr, solver)

\* A mutation of JumpSymbolic: the arm that is taken alone is not asserted.
JumpSymbolic_NoAssert(fr, solver, v, target) ==
    LET test_true == SmtVar(v)
        test_false == SmtNot(SmtVar(v))
        can_be_true == CheckSatWith(solver, test_true)
        can_be_false == CheckSatWith(solver, test_false)
    IN  IF can_be_true /\ can_be_false
        THEN LET point == CheckpointWith(solver, AssertDef(test_false))
                 frozen == [freeze_frame(fr) EXCEPT !.pc = fr.pc + 1]
             IN  Cont([fr EXCEPT !.pc = target], Add(solver, AssertDef(test_true)),
                      << [frame |-> frozen, checkpoint |-> point] >>)
        ELSE IF can_be_true
        THEN Cont([fr EXCEPT !.pc = target], solver, <<>>)
        ELSE IF can_be_false
        THEN Cont([fr EXCEPT !.pc = fr.pc + 1], solver, <<>>)
        ELSE Fail("err", "Dead", fr, solver)

\* A mutation of JumpSymbolic: an infeasible path falls through with the
\* negated condition asserted instead of ending with Dead.
JumpSymbolic_DeadFallsThrough(fr, solver, v, target) ==
    LET test_true == SmtVar(v)
        test_false == SmtNot(SmtVar(v))
        can_be_true == CheckSatWith(solver, test_true)
        can_be_false == CheckSatWith(solver, test_false)
    IN  IF can_be_true /\ can_be_false
        THEN LET point == CheckpointWith(solver, AssertDef(test_false))
                 frozen == [freeze_frame(fr) EXCEPT !.pc = fr.pc + 1]
             IN  Cont([fr EXCEPT !.pc = target], Add(solver, AssertDef(test_true)),
                      << [frame |-> frozen, checkpoint |-> point] >>)
        ELSE IF can_be_true
        THEN Cont([fr EXCEPT !.pc = target], Add(solver, AssertDef(test_true)), <<>>)
        ELSE Cont([fr EXCEPT !.pc = fr.pc + 1], Add(solver, AssertDef(test_false)), <<>>)

\* A mutation of JumpSymbolic: only the false arm is checked; the true arm
\* is taken as feasible.
JumpSymbolic_TrueArmAssumed(fr, solver, v, target) ==
    LET test_true == SmtVar(v)
        test_false == SmtNot(SmtVar(v))
        can_be_false == CheckSatWith(solver, test_false)
    IN  IF can_be_false
        THEN LET point == CheckpointWith(solver, AssertDef(test_false))
                 frozen == [freeze_frame(fr) EXCEPT !.pc = fr.pc + 1]
             IN  Cont([fr EXCEPT !.pc = target], Add(solver, AssertDef(test_true)),
                      << [frame |-> frozen, checkpoint |-> point] >>)
        ELSE Cont([fr EXCEPT !.pc = target], Add(solver, AssertDef(test_true)), <<>>)

\* A mutation of JumpSymbolic: the jump forks on every symbolic condition
\* without asking the solver which arms are feasible.
JumpSymbolic_ForkUnchecked(fr, solver, v, target) ==
    LET test_true == SmtVar(v)
        test_false == SmtNot(SmtVar(v))
        point == CheckpointWith(solver, AssertDef(test_false))
        frozen == [freeze_frame(fr) EXCEPT !.pc = fr.pc + 1]
    IN  Cont([fr EXCEPT !.pc = target], Add(solver, AssertDef(test_true)),
             << [frame |-> frozen, checkpoint |-> point] >>)

\* A mutation of JumpSymbolic: the frame of the pushed Task is the frame
\* from before the branch variable was initialised.
JumpSymbolic_ForkForgetsInit(fr, solver, v, target) ==
    LET test_true == SmtVar(v)
        test_false == SmtNot(SmtVar(v))
        can_be_true == CheckSatWith(solver, test_true)
        can_be_false == CheckSatWith(solver, test_false)
    IN  IF can_be_true /\ can_be_false
        THEN LET point == CheckpointWith(solver, AssertDef(test_false))
                 before == [id \in DOMAIN fr.vars |->
                              IF fr.vars[id] = VSymbolic(v) THEN VUninitialized(TyBool)
                              ELSE fr.vars[id]]
                 frozen == [freeze_frame(fr) EXCEPT !.pc = fr.pc + 1, !.vars = before]
             IN  Cont([fr EXCEPT !.pc = target], Add(solver, AssertDef(test_true)),
                      << [frame |-> frozen, checkpoint |-> point] >>)
        ELSE IF can_be_true
        THEN Cont([fr EXCEPT !.pc = target], Add(solver, AssertDef(test_true)), <<>>)
        ELSE IF can_be_false
        THEN Cont([fr EXCEPT !.pc = fr.pc + 1], Add(solver, AssertDef(test_false)), <<>>)
        ELSE Fail("err", "Dead", fr, solver)

\* The Val::Symbolic(v) arm of Instr::Jump.
JumpSymbolic(fr, solver, v, target) ==
    LET test_true == SmtVar(v)
        test_false == SmtNot(SmtVar(v))
        can_be_true == CheckSatWith(solver, test_true)
        can_be_false == CheckSatWith(solver, test_false)
    IN  IF can_be_true /\ can_be_false
        THEN LET point == CheckpointWith(solver, AssertDef(test_false))
                 frozen == [freeze_frame(fr) EXCEPT !.pc = fr.pc + 1]
             IN  Cont([fr EXCEPT !.pc = target], Add(solver, AssertDef(test_true)),
                      << [frame |-> frozen, checkpoint |-> point] >>)
        ELSE IF can_be_true
        THEN Cont([fr EXCEPT !.pc = target], Add(solver, AssertDef(test_true)), <<>>)
        ELSE IF can_be_false
        THEN Cont([fr EXCEPT !.pc = fr.pc + 1], Add(solver, AssertDef(test_false)), <<>>)
        ELSE Fail("err", "Dead", fr, solver)

\* Instr::Jump of run.
JumpStep(frame, solver, exp, target) ==
    LET Branch(r, fr) ==
            IF r.st # "ok" THEN Fail(r.st, r.err, fr, r.solver)
            ELSE CASE r.val.tag = "Symbolic" -> JumpSymbolic(fr, r.solver, r.val.v, target)
                   [] r.val.tag = "Bool" ->
                        IF r.val.b THEN Cont([fr EXCEPT !.pc = target], r.solver, <<>>)
                        ELSE Cont([fr EXCEPT !.pc = fr.pc + 1], r.solver, <<>>)
                   [] OTHER -> Fail("err", "Type", fr, r.solver)
        OnCond(r) == Branch(r, WithEnv(frame, r))
    IN  OnCond(eval_exp(exp, frame.vars, frame.globals, solver))

\* A mutation of CallStep: a call of SAIL_EXIT goes on to the next instruction.
CallStep_ExitContinues(frame, solver, loc, f, args) ==
    IF f \notin DOMAIN Functions
    THEN IF f = "INTERNAL_VECTOR_INIT" /\ Len(args) = 1
         THEN LET OnInit(fr, a) ==
                      IF a.st # "ok" THEN Fail(a.st, a.err, WithEnv(fr, a), a.solver)
                      ELSE Cont([WithEnv(fr, a) EXCEPT !.pc = fr.pc + 1], a.solver, <<>>)
                  VectorInit(r, fr) ==
                      IF r.st # "ok" THEN Fail(r.st, r.err, fr, r.solver)
                      ELSE IF /\ loc.l = "Id"
                              /\ r.val.tag = "I64"
                              /\ loc.id \in DOMAIN fr.vars
                              /\ fr.vars[loc.id].tag = "Uninitialized"
                              /\ fr.vars[loc.id].ty.k = "Vector"
                           THEN OnInit(fr, assign(loc,
                                                  VVector([k \in 1..r.val.i |->
                                                             VUninitialized(fr.vars[loc.id].ty.ty)]),
                                                  fr.vars, fr.globals, r.solver))
                           ELSE Fail("err", "Type", fr, r.solver)
                  OnLen(r) == VectorInit(r, WithEnv(frame, r))
              IN  OnLen(eval_exp(args[1], frame.vars, frame.globals, solver))
         ELSE IF f = "INTERNAL_VECTOR_UPDATE" THEN Cont([frame EXCEPT !.pc = frame.pc + 1], solver, <<>>)
         ELSE IF f = "SAIL_EXIT" THEN Cont([frame EXCEPT !.pc = frame.pc + 1], solver, <<>>)
         ELSE Fail("panic", "panic", frame, solver)
    ELSE LET fn == Functions[f]
             \* the closure: what it captured of the caller, and loc
             Restore(caller) ==
                 [pc |-> caller.pc, vars |-> caller.vars, instrs |-> caller.instrs, loc |-> loc]
             Enter(a, caller) ==
                 IF a.st # "ok" THEN Fail(a.st, a.err, caller, a.solver)
                 ELSE IF Len(a.val) > Len(fn.params) THEN Fail("panic", "panic", caller, a.solver)
                 ELSE Cont([caller EXCEPT
                              !.stack = <<Restore(caller)>> \o caller.stack,
                              !.vars = [id \in {fn.params[k][1] : k \in 1..Len(a.val)} |->
                                          a.val[CHOOSE k \in 1..Len(a.val) :
                                                  /\ fn.params[k][1] = id
                                                  /\ \A j \in (k + 1)..Len(a.val) : fn.params[j][1] # id]],
                              !.pc = 0,
                              !.instrs = fn.instrs],
                           a.solver, <<>>)
             OnArgs(a) == Enter(a, freeze_frame(WithEnv(frame, a)))
         IN  OnArgs(EvalArgs(args, 1, frame.vars, frame.globals, solver, <<>>))

\* A mutation of CallStep: the callee starts with the locals of its caller,
\* to which the parameters are added.
CallStep_KeepsCallerLocals(frame, solver, loc, f, args) ==
    IF f \notin DOMAIN Functions
    THEN IF f = "INTERNAL_VECTOR_INIT" /\ Len(args) = 1
         THEN LET OnInit(fr, a) ==
                      IF a.st # "ok" THEN Fail(a.st, a.err, WithEnv(fr, a), a.solver)
                      ELSE Cont([WithEnv(fr, a) EXCEPT !.pc = fr.pc + 1], a.solver, <<>>)
                  VectorInit(r, fr) ==
                      IF r.st # "ok" THEN Fail(r.st, r.err, fr, r.solver)
                      ELSE IF /\ loc.l = "Id"
                              /\ r.val.tag = "I64"
                              /\ loc.id \in DOMAIN fr.vars
                              /\ fr.vars[loc.id].tag = "Uninitialized"
                              /\ fr.vars[loc.id].ty.k = "Vector"
                           THEN OnInit(fr, assign(loc,
                                                  VVector([k \in 1..r.val.i |->
                                                             VUninitialized(fr.vars[loc.id].ty.ty)]),
                                                  fr.vars, fr.globals, r.solver))
                           ELSE Fail("err", "Type", fr, r.solver)
                  OnLen(r) == VectorInit(r, WithEnv(frame, r))
              IN  OnLen(eval_exp(args[1], frame.vars, frame.globals, solver))
         ELSE IF f = "INTERNAL_VECTOR_UPDATE" THEN Cont([frame EXCEPT !.pc = frame.pc + 1], solver, <<>>)
         ELSE IF f = "SAIL_EXIT" THEN Fail("err", "Exit", frame, solver)
         ELSE Fail("panic", "panic", frame, solver)
    ELSE LET fn == Functions[f]
             \* the closure: what it captured of the caller, and loc
             Restore(caller) ==
                 [pc |-> caller.pc, vars |-> caller.vars, instrs |-> caller.instrs, loc |-> loc]
             Enter(a, caller) ==
                 IF a.st # "ok" THEN Fail(a.st, a.err, caller, a.solver)
                 ELSE IF Len(a.val) > Len(fn.params) THEN Fail("panic", "panic", caller, a.solver)
                 ELSE Cont([caller EXCEPT
                              !.stack = <<Restore(caller)>> \o caller.stack,
                              !.vars = [id \in DOMAIN caller.vars
                                                  \cup {fn.params[k][1] : k \in 1..Len(a.val)} |->
                                          IF \E k \in 1..Len(a.val) : fn.params[k][1] = id
                                          THEN a.val[CHOOSE k \in 1..Len(a.val) :
                                                       /\ fn.params[k][1] = id
                                                       /\ \A j \in (k + 1)..Len(a.val) : fn.params[j][1] # id]
                                          ELSE caller.vars[id]],
                              !.pc = 0,
                              !.instrs = fn.instrs],
                           a.solver, <<>>)
             OnArgs(a) == Enter(a, freeze_frame(WithEnv(frame, a)))
         IN  OnArgs(EvalArgs(args, 1, frame.vars, frame.globals, solver, <<>>))

\* Instr::Call of run.
CallStep(frame, solver, loc, f, args) ==
    IF f \notin DOMAIN Functions
    THEN IF f = "INTERNAL_VECTOR_INIT" /\ Len(args) = 1
         THEN LET OnInit(fr, a) ==
                      IF a.st # "ok" THEN Fail(a.st, a.err, WithEnv(fr, a), a.solver)
                      ELSE Cont([WithEnv(fr, a) EXCEPT !.pc = fr.pc + 1], a.solver, <<>>)
                  VectorInit(r, fr) ==
                      IF r.st # "ok" THEN Fail(r.st, r.err, fr, r.solver)
                      ELSE IF /\ loc.l = "Id"
                              /\ r.val.tag = "I64"
                              /\ loc.id \in DOMAIN fr.vars
                              /\ fr.vars[loc.id].tag = "Uninitialized"
                              /\ fr.vars[loc.id].ty.k = "Vector"
                           THEN OnInit(fr, assign(loc,
                                                  VVector([k \in 1..r.val.i |->
                                                             VUninitialized(fr.vars[loc.id].ty.ty)]),
                                                  fr.vars, fr.globals, r.solver))
                           ELSE Fail("err", "Type", fr, r.solver)
                  OnLen(r) == VectorInit(r, WithEnv(frame, r))
              IN  OnLen(eval_exp(args[1], frame.vars, frame.globals, solver))
         ELSE IF f = "INTERNAL_VECTOR_UPDATE" THEN Cont([frame EXCEPT !.pc = frame.pc + 1], solver, <<>>)
         ELSE IF f = "SAIL_EXIT" THEN Fail("err", "Exit", frame, solver)
         ELSE Fail("panic", "panic", frame, solver)
    ELSE LET fn == Functions[f]
             \* the closure: what it captured of the caller, and loc
             Restore(caller) ==
                 [pc |-> caller.pc, vars |-> caller.vars, instrs |-> caller.instrs, loc |-> loc]
             Enter(a, caller) ==
                 IF a.st # "ok" THEN Fail(a.st, a.err, caller, a.solver)
                 ELSE IF Len(a.val) > Len(fn.params) THEN Fail("panic", "panic", caller, a.solver)
                 ELSE Cont([caller EXCEPT
                              !.stack = <<Restore(caller)>> \o caller.stack,
                              !.vars = [id \in {fn.params[k][1] : k \in 1..Len(a.val)} |->
                                          a.val[CHOOSE k \in 1..Len(a.val) :
                                                  /\ fn.params[k][1] = id
                                                  /\ \A j \in (k + 1)..Len(a.val) : fn.params[j][1] # id]],
                              !.pc = 0,
                              !.instrs = fn.instrs],
                           a.solver, <<>>)
             OnArgs(a) == Enter(a, freeze_frame(WithEnv(frame, a)))
         IN  OnArgs(EvalArgs(args, 1, frame.vars, frame.globals, solver, <<>>))

\* A mutation of EndStep: an unassigned RETURN slot reads as unit.
EndStep_MissingReturnIsUnit(frame, solver) ==
    LET value == IF "RETURN" \in DOMAIN frame.vars THEN frame.vars["RETURN"] ELSE VUnit
    IN  IF frame.stack = <<>> THEN Done(value, frame, solver)
        ELSE LET caller == Head(frame.stack)
                 Restored(a) == [frame EXCEPT !.pc = caller.pc + 1,
                                              !.instrs = caller.instrs,
                                              !.stack = Tail(frame.stack),
                                              !.vars = a.vars,
                                              !.globals = a.globals]
                 Return(a, restored) ==
                     IF a.st # "ok" THEN Fail(a.st, a.err, restored, a.solver)
                     ELSE Cont(restored, a.solver, <<>>)
                 OnAssign(a) == Return(a, Restored(a))
             IN  OnAssign(assign(caller.loc, value, caller.vars, frame.globals, solver))

\* A mutation of EndStep: the return value is assigned in the callee's locals,
\* which the caller then continues with.
EndStep_KeepsCalleeLocals(frame, solver) ==
    IF "RETURN" \notin DOMAIN frame.vars THEN Fail("panic", "panic", frame, solver)
    ELSE LET value == frame.vars["RETURN"]
         IN  IF frame.stack = <<>> THEN Done(value, frame, solver)
             ELSE LET caller == Head(frame.stack)
                      Restored(a) == [frame EXCEPT !.pc = caller.pc + 1,
                                                   !.instrs = caller.instrs,
                                                   !.stack = Tail(frame.stack),
                                                   !.vars = a.vars,
                                                   !.globals = a.globals]
                      Return(a, restored) ==
                          IF a.st # "ok" THEN Fail(a.st, a.err, restored, a.solver)
                          ELSE Cont(restored, a.solver, <<>>)
                      OnAssign(a) == Return(a, Restored(a))
                  IN  OnAssign(assign(caller.loc, value, frame.vars, frame.globals, solver))

\* Instr::End of run.
EndStep(frame, solver) ==
    IF "RETURN" \notin DOMAIN frame.vars THEN Fail("panic", "panic", frame, solver)
    ELSE LET value == frame.vars["RETURN"]
         IN  IF frame.stack = <<>> THEN Done(value, frame, solver)
             ELSE LET caller == Head(frame.stack)
                      Restored(a) == [frame EXCEPT !.pc = caller.pc + 1,
                                                   !.instrs = caller.instrs,
                                                   !.stack = Tail(frame.stack),
                                                   !.vars = a.vars,
                                                   !.globals = a.globals]
                      Return(a, restored) ==
                          IF a.st # "ok" THEN Fail(a.st, a.err, restored, a.solver)
                          ELSE Cont(restored, a.solver, <<>>)
                      OnAssign(a) == Return(a, Restored(a))
                  IN  OnAssign(assign(caller.loc, value, caller.vars, frame.globals, solver))

\* One iteration of the loop of run.
Step(frame, solver) ==
    LET instrs == Code[frame.instrs] IN
    IF frame.pc >= Len(instrs) THEN Done(VUnit, frame, solver)
    ELSE LET instr == instrs[frame.pc + 1] IN
         CASE instr.i = "Decl" ->
                Cont([frame EXCEPT !.vars = Insert(@, instr.v, VUninitialized(instr.ty)),
                                   !.pc = @ + 1], solver, <<>>)
           [] instr.i = "Init" ->
                LET OnInit(r) ==
                        IF r.st # "ok" THEN Fail(r.st, r.err, WithEnv(frame, r), r.solver)
                        ELSE Cont([frame EXCEPT !.vars = Insert(r.vars, instr.v, r.val),
                                                !.globals = r.globals,
                                                !.pc = @ + 1], r.solver, <<>>)
                IN  OnInit(eval_exp(instr.e, frame.vars, frame.globals, solver))
           [] instr.i = "Jump" -> JumpStep(frame, solver, instr.e, instr.t)
           [] instr.i = "Goto" -> Cont([frame EXCEPT !.pc = instr.t], solver, <<>>)
           [] instr.i = "Copy" ->
                LET OnCopy(a) ==
                        IF a.st # "ok" THEN Fail(a.st, a.err, WithEnv(frame, a), a.solver)
                        ELSE Cont([WithEnv(frame, a) EXCEPT !.pc = @ + 1], a.solver, <<>>)
                    OnExp(r) ==
                        IF r.st # "ok" THEN Fail(r.st, r.err, WithEnv(frame, r), r.solver)
                        ELSE OnCopy(assign(instr.loc, r.val, r.vars, r.globals, r.solver))
                IN  OnExp(eval_exp(instr.e, frame.vars, frame.globals, solver))
           [] instr.i = "PrimopUnary" ->
                LET OnAssigned(a) ==
                        IF a.st # "ok" THEN Fail(a.st, a.err, WithEnv(frame, a), a.solver)
                        ELSE Cont([WithEnv(frame, a) EXCEPT !.pc = @ + 1], a.solver, <<>>)
                    OnPrimop(r, v) ==
                        IF v.st # "ok" THEN Fail(v.st, v.err, WithEnv(frame, r), v.solver)
                        ELSE OnAssigned(assign(instr.loc, v.val, r.vars, r.globals, v.solver))
                    OnArg(r) ==
                        IF r.st # "ok" THEN Fail(r.st, r.err, WithEnv(frame, r), r.solver)
                        ELSE OnPrimop(r, not_bool(r.val, r.solver))
                IN  OnArg(eval_exp(instr.arg, frame.vars, frame.globals, solver))
           [] instr.i = "Call" -> CallStep(frame, solver, instr.loc, instr.f, instr.args)
           [] instr.i = "End" -> EndStep(frame, solver)
           [] OTHER -> Cont([frame EXCEPT !.pc = @ + 1], solver, <<>>)

(***************************************************************************)
(* The collector and the initial Tasks the engine is started with.         *)
(***************************************************************************)
\* A mutation of all_unsat_collector: the verdict of the path overwrites the
\* shared boolean instead of being and-ed into it.
all_unsat_collector_Overwrite(res, solver, b) ==
    IF res.st = "ok"
    THEN CASE res.val.tag = "Symbolic" ->
                ~CheckSat(Add(solver, AssertDef(SmtNot(SmtVar(res.val.v)))))
           [] res.val.tag = "Bool" -> res.val.b
           [] OTHER -> TRUE
    ELSE res.err = "Dead"

\* A mutation of all_unsat_collector: a dead path counts as an error.
all_unsat_collector_DeadFlips(res, solver, b) ==
    IF res.st = "ok"
    THEN CASE res.val.tag = "Symbolic" ->
                IF CheckSat(Add(solver, AssertDef(SmtNot(SmtVar(res.val.v))))) THEN b /\ FALSE ELSE b
           [] res.val.tag = "Bool" -> IF res.val.b THEN b ELSE b /\ FALSE
           [] OTHER -> b
    ELSE b /\ FALSE

\* all_unsat_collector: the new value of the shared boolean.
all_unsat_collector(res, solver, b) ==
    IF res.st = "ok"
    THEN CASE res.val.tag = "Symbolic" ->
                IF CheckSat(Add(solver, AssertDef(SmtNot(SmtVar(res.val.v))))) THEN b /\ FALSE ELSE b
           [] res.val.tag = "Bool" -> IF res.val.b THEN b ELSE b /\ FALSE
           [] OTHER -> b
    ELSE IF res.err = "Dead" THEN b ELSE b /\ FALSE

Task(frame, checkpoint) == [frame |-> frame, checkpoint |-> checkpoint]

RegC(val) == [c |-> val]
\* A checkpoint that has declared the boolean v0 and holds the given assertions.
CheckpointB(asserts) == [next |-> 1, trace |-> <<DeclareConst(0, SortBool)>> \o asserts]
\* v0 is a 2-bit vector asserted to be 0x0 and v1 is defined as v0 != 0x0.
CheckpointNeq ==
    [next |-> 2,
     trace |-> << DeclareConst(0, SortBitVec(2)),
                  AssertDef(SmtEq(SmtVar(0), SmtBits(2, 0))),
                  DefineConst(1, SmtNot(SmtEq(SmtVar(0), SmtBits(2, 0)))) >>]

Entries == <<
    Task(NewFrame(<<>>, EmptyMap, "fork1"), NewSolver),
    Task(NewFrame(<<>>, EmptyMap, "fork2"), NewSolver),
    Task(NewFrame(<<>>, EmptyMap, "conc"), NewSolver),
    Task(NewFrame(<<>>, RegC(VUninitialized(TyBool)), "reg"), NewSolver),
    Task(NewFrame(<<>>, RegC(VSymbolic(0)), "reg"), CheckpointB(<<AssertDef(SmtVar(0))>>)),
    Task(NewFrame(<<>>, RegC(VSymbolic(0)), "reg"), CheckpointB(<<AssertDef(SmtNot(SmtVar(0)))>>)),
    Task(NewFrame(<<>>, RegC(VSymbolic(0)), "reg"),
         CheckpointB(<<AssertDef(SmtVar(0)), AssertDef(SmtNot(SmtVar(0)))>>)),
    Task(NewFrame(<<>>, RegC(VSymbolic(1)), "reg"), CheckpointNeq),
    Task(NewFrame(<<>>, RegC(VUninitialized(TyString)), "reg"), NewSolver),
    Task(NewFrame(<<>>, EmptyMap, "s1"), NewSolver)
  >>

\* The Tasks start_single is started with when one path at a time is followed:
\* those above and programs that call functions.
PathEntries == Entries \o <<
    Task(NewFrame(<<>>, EmptyMap, "s3"), NewSolver),
    Task(NewFrame(<<>>, EmptyMap, "nest"), NewSolver),
    Task(NewFrame(<<>>, EmptyMap, "s4"), NewSolver),
    Task(NewFrame(<<>>, EmptyMap, "loop"), NewSolver),
    Task(NewFrame(<<>>, EmptyMap, "unimp"), NewSolver),
    Task(NewFrame(<<>>, EmptyMap, "unreach"), NewSolver),
    Task(NewFrame(<<>>, EmptyMap, "forkfail"), NewSolver),
    Task(NewFrame(<<>>, EmptyMap, "callfail"), NewSolver),
    Task(NewFrame(<<>>, EmptyMap, "forkft"), NewSolver),
    Task(NewFrame(<<>>, EmptyMap, "fork3"), NewSolver),
    Task(NewFrame(<<>>, EmptyMap, "hidden"), NewSolver),
    Task(NewFrame(<<>>, EmptyMap, "callfall"), NewSolver),
    Task(NewFrame(<<>>, EmptyMap, "nofin"), NewSolver),
    Task(NewFrame(<<>>, EmptyMap, "written"), NewSolver)
  >>

(***************************************************************************)
(* The engine: start_single and start_multi.                               *)
(*                                                                         *)
(* State of the program: the injector, the workers' deques, the Activity   *)
(* channel, the poke channels, the orchestrator's two arrays and the       *)
(* shared aggregate.  wpc is each thread's position in its loop, held the  *)
(* Task a worker took but has not started, cur the frame and solver of the *)
(* Task it is running.  pushed, nforks, log and ncalls record the history:  *)
(* the Tasks created and the forks performed so far, and the collector     *)
(* calls made so far; back, in cur, counts the backward jumps the path has *)
(* made.  data and out belong to the functions that are      *)
(* followed on their own (further down): the data a function works on in   *)
(* place and what its last call returned; the engine leaves them alone.    *)
(***************************************************************************)
VARIABLES entry, mode, nthreads, injector, deque, wpc, held, cur, chan, poke,
          opc, current_activity, last_messages, collected, pushed, log, ncalls, nforks,
          data, out

vars == <<entry, mode, nthreads, injector, deque, wpc, held, cur, chan, poke,
          opc, current_activity, last_messages, collected, pushed, log, ncalls, nforks,
          data, out>>

\* Values of num_threads the engine is started with.
ThreadCounts == {1, 2}

Workers == 0..(nthreads - 1)

\* mpsc::sync_channel(2 * num_threads)
Capacity == 2 * nthreads

Busy(tid) == [act |-> "Busy", tid |-> tid]
Idle(tid) == [act |-> "Idle", tid |-> tid]

\* Worker::push and Worker::pop of a LIFO worker queue, Stealer::steal.
Push(q, tasks) == q \o tasks
PopTask(q) == q[Len(q)]
PopRest(q) == SubSeq(q, 1, Len(q) - 1)
StealTask(q) == Head(q)
StealRest(q) == Tail(q)

\* A mutation of find_task: a steal leaves the stolen Task in the peer's queue.
find_task_StealKeeps(w, v) ==
    IF deque[w] # <<>>
    THEN [found |-> TRUE, task |-> PopTask(deque[w]),
          deque |-> [deque EXCEPT ![w] = PopRest(@)], injector |-> injector]
    ELSE IF deque[v] # <<>>
    THEN [found |-> TRUE, task |-> StealTask(deque[v]), deque |-> deque, injector |-> injector]
    ELSE IF injector # <<>>
    THEN [found |-> TRUE, task |-> Head(injector), deque |-> deque, injector |-> Tail(injector)]
    ELSE [found |-> FALSE, task |-> Entries[1], deque |-> deque, injector |-> injector]

\* A mutation of find_task: the injector is never consulted.
find_task_NoInjector(w, v) ==
    IF deque[w] # <<>>
    THEN [found |-> TRUE, task |-> PopTask(deque[w]),
          deque |-> [deque EXCEPT ![w] = PopRest(@)], injector |-> injector]
    ELSE IF deque[v] # <<>>
    THEN [found |-> TRUE, task |-> StealTask(deque[v]),
          deque |-> [deque EXCEPT ![v] = StealRest(@)], injector |-> injector]
    ELSE [found |-> FALSE, task |-> Entries[1], deque |-> deque, injector |-> injector]

\* find_task, for a worker w and the peer v its steal attempts reach first.
\* The scan of the queues is taken as one step, so no attempt reports Retry.
find_task(w, v) ==
    IF deque[w] # <<>>
    THEN [found |-> TRUE, task |-> PopTask(deque[w]),
          deque |-> [deque EXCEPT ![w] = PopRest(@)], injector |-> injector]
    ELSE IF deque[v] # <<>>
    THEN [found |-> TRUE, task |-> StealTask(deque[v]),
          deque |-> [deque EXCEPT ![v] = StealRest(@)], injector |-> injector]
    ELSE IF injector # <<>>
    THEN [found |-> TRUE, task |-> Head(injector), deque |-> deque, injector |-> Tail(injector)]
    ELSE [found |-> FALSE, task |-> Entries[1], deque |-> deque, injector |-> injector]

\* The peers a steal of w can succeed on: every stealer is tried, and the
\* first success wins; the order of the stealers is the order of registration.
Victims(w) ==
    IF \E v \in Workers : deque[v] # <<>> THEN {v \in Workers : deque[v] # <<>>} ELSE {w}

\* The start of do_work: a solver in a new context from the checkpoint, and
\* the thawed frame of run.
Started(task) ==
    <<[task |-> task, frame |-> unfreeze_frame(task.frame),
       solver |-> FromCheckpoint(task.checkpoint), back |-> 0]>>

\* static MAX_BACKJUMPS (the budget of the prototype of run in src/main.rs)
MAX_BACKJUMPS == 20
\* The backward jumps of one path that are followed.
MaxBack == 21

\* The step from frame to next is a backward jump: a Goto or a Jump that
\* transfers control to a target <= pc.
BackwardJump(frame, next) ==
    /\ frame.pc < Len(Code[frame.instrs])
    /\ Code[frame.instrs][frame.pc + 1].i \in {"Goto", "Jump"}
    /\ next.pc <= frame.pc

Init ==
    /\ entry \in 1..Len(Entries)
    /\ mode \in {"single", "multi"}
    /\ nthreads \in ThreadCounts
    /\ mode = "single" => nthreads = 1
    /\ injector = IF mode = "multi" THEN <<Entries[entry]>> ELSE <<>>
    /\ deque = [w \in Workers |-> IF mode = "single" THEN <<Entries[entry]>> ELSE <<>>]
    /\ wpc = [w \in Workers |-> IF mode = "single" THEN "pop" ELSE "find"]
    /\ held = [w \in Workers |-> <<>>]
    /\ cur = [w \in Workers |-> <<>>]
    /\ chan = <<>>
    /\ poke = [w \in Workers |-> <<>>]
    /\ opc = IF mode = "multi" THEN "round" ELSE "off"
    /\ current_activity = [w \in Workers |-> 0]
    /\ last_messages = [w \in Workers |-> "Busy"]
    /\ collected = TRUE
    /\ pushed = {Entries[entry]}
    /\ log = {}
    /\ ncalls = 0
    /\ nforks = 0
    /\ data = <<>>
    /\ out = <<>>

\* A mutation of SinglePop: the queue is first-in first-out.
SinglePop_Fifo ==
    /\ mode = "single" /\ wpc[0] = "pop"
    /\ IF deque[0] # <<>>
       THEN /\ cur' = [cur EXCEPT ![0] = Started(StealTask(deque[0]))]
            /\ deque' = [deque EXCEPT ![0] = StealRest(@)]
            /\ wpc' = [wpc EXCEPT ![0] = "run"]
       ELSE /\ wpc' = [wpc EXCEPT ![0] = "returned"]
            /\ UNCHANGED <<cur, deque>>
    /\ UNCHANGED <<data, out, entry, mode, nthreads, injector, held, chan, poke, opc, current_activity,
                   last_messages, collected, pushed, log, ncalls, nforks>>

\* start_single: while let Some(task) = queue.pop()
SinglePop ==
    /\ mode = "single" /\ wpc[0] = "pop"
    /\ IF deque[0] # <<>>
       THEN /\ cur' = [cur EXCEPT ![0] = Started(PopTask(deque[0]))]
            /\ deque' = [deque EXCEPT ![0] = PopRest(@)]
            /\ wpc' = [wpc EXCEPT ![0] = "run"]
       ELSE /\ wpc' = [wpc EXCEPT ![0] = "returned"]
            /\ UNCHANGED <<cur, deque>>
    /\ UNCHANGED <<data, out, entry, mode, nthreads, injector, held, chan, poke, opc, current_activity,
                   last_messages, collected, pushed, log, ncalls, nforks>>

\* start_multi, worker: `if let Some(task) = find_task(..)` at the head of the loop.
WorkerFind(w) ==
    /\ mode = "multi" /\ wpc[w] = "find"
    /\ \E v \in Victims(w) :
         LET r == find_task(w, v)
         IN  /\ deque' = r.deque
             /\ injector' = r.injector
             /\ held' = [held EXCEPT ![w] = IF r.found THEN <<r.task>> ELSE <<>>]
             /\ wpc' = [wpc EXCEPT ![w] = IF r.found THEN "busy" ELSE "idle"]
    /\ UNCHANGED <<data, out, entry, mode, nthreads, cur, chan, poke, opc, current_activity,
                   last_messages, collected, pushed, log, ncalls, nforks>>

\* thread_tx.send(Activity::Busy(tid)), which blocks while the channel is
\* full, and the start of do_work on the Task found.
WorkerSendBusy(w) ==
    /\ mode = "multi" /\ wpc[w] = "busy"
    /\ Len(chan) < Capacity
    /\ chan' = Append(chan, Busy(w))
    /\ cur' = [cur EXCEPT ![w] = Started(held[w][1])]
    /\ held' = [held EXCEPT ![w] = <<>>]
    /\ wpc' = [wpc EXCEPT ![w] = "run"]
    /\ UNCHANGED <<data, out, entry, mode, nthreads, injector, deque, poke, opc, current_activity,
                   last_messages, collected, pushed, log, ncalls, nforks>>

\* One iteration of the loop of run on the worker's Task; when run returns,
\* the collector is called on its result (the rest of do_work).
WorkerRun(w) ==
    /\ wpc[w] = "run"
    /\ cur[w][1].back < MaxBack
    /\ LET Apply(c, r) ==
           CASE r.st = "cont" ->
                  /\ cur' = [cur EXCEPT ![w] =
                                <<[c EXCEPT !.frame = r.frame, !.solver = r.solver,
                                            !.back = IF BackwardJump(c.frame, r.frame)
                                                     THEN @ + 1 ELSE @]>>]
                  /\ deque' = [deque EXCEPT ![w] = Push(@, r.push)]
                  /\ pushed' = pushed \cup {r.push[k] : k \in 1..Len(r.push)}
                  /\ nforks' = nforks + Len(r.push)
                  /\ UNCHANGED <<wpc, collected, log, ncalls>>
             [] r.st \in {"ok", "err"} ->
                  /\ collected' = all_unsat_collector(r, r.solver, collected)
                  /\ log' = log \cup {[task |-> c.task, st |-> r.st, val |-> r.val, err |-> r.err,
                                       trace |-> r.solver.trace]}
                  /\ ncalls' = ncalls + 1
                  /\ cur' = [cur EXCEPT ![w] = <<>>]
                  /\ wpc' = [wpc EXCEPT ![w] = IF mode = "single" THEN "pop" ELSE "loop"]
                  /\ UNCHANGED <<deque, pushed, nforks>>
             [] OTHER ->
                  /\ wpc' = [wpc EXCEPT ![w] = "panicked"]
                  /\ cur' = [cur EXCEPT ![w] = <<[c EXCEPT !.frame = r.frame, !.solver = r.solver]>>]
                  /\ UNCHANGED <<deque, pushed, collected, log, ncalls, nforks>>
       IN  Apply(cur[w][1], Step(cur[w][1].frame, cur[w][1].solver))
    /\ UNCHANGED <<data, out, entry, mode, nthreads, injector, held, chan, poke, opc, current_activity,
                   last_messages>>

\* A mutation of WorkerLoop: Busy is sent again for every Task of the burst.
WorkerLoop_BusyAgain(w) ==
    /\ mode = "multi" /\ wpc[w] = "loop"
    /\ \E v \in Victims(w) :
         LET r == find_task(w, v)
         IN  /\ deque' = r.deque
             /\ injector' = r.injector
             /\ held' = [held EXCEPT ![w] = IF r.found THEN <<r.task>> ELSE <<>>]
             /\ wpc' = [wpc EXCEPT ![w] = IF r.found THEN "busy" ELSE "idle"]
    /\ UNCHANGED <<data, out, entry, mode, nthreads, cur, chan, poke, opc, current_activity,
                   last_messages, collected, pushed, log, ncalls, nforks>>

\* `while let Some(task) = find_task(..) { do_work(..) }`
WorkerLoop(w) ==
    /\ mode = "multi" /\ wpc[w] = "loop"
    /\ \E v \in Victims(w) :
         LET r == find_task(w, v)
         IN  /\ deque' = r.deque
             /\ injector' = r.injector
             /\ cur' = [cur EXCEPT ![w] = IF r.found THEN Started(r.task) ELSE <<>>]
             /\ wpc' = [wpc EXCEPT ![w] = IF r.found THEN "run" ELSE "idle"]
    /\ UNCHANGED <<data, out, entry, mode, nthreads, held, chan, poke, opc, current_activity,
                   last_messages, collected, pushed, log, ncalls, nforks>>

\* thread_tx.send(Activity::Idle(tid, poke_tx.clone()))
WorkerSendIdle(w) ==
    /\ mode = "multi" /\ wpc[w] = "idle"
    /\ Len(chan) < Capacity
    /\ chan' = Append(chan, Idle(w))
    /\ wpc' = [wpc EXCEPT ![w] = "recv"]
    /\ UNCHANGED <<data, out, entry, mode, nthreads, injector, deque, held, cur, poke, opc, current_activity,
                   last_messages, collected, pushed, log, ncalls, nforks>>

\* match poke_rx.recv().unwrap() { Poke => (), Kill => break }
WorkerRecv(w) ==
    /\ mode = "multi" /\ wpc[w] = "recv"
    /\ poke[w] # <<>>
    /\ poke' = [poke EXCEPT ![w] = Tail(@)]
    /\ wpc' = [wpc EXCEPT ![w] = IF Head(poke[w]) = "Kill" THEN "exited" ELSE "find"]
    /\ UNCHANGED <<data, out, entry, mode, nthreads, injector, deque, held, cur, chan, opc, current_activity,
                   last_messages, collected, pushed, log, ncalls, nforks>>

\* The orchestrator: one rx.try_recv() that returns a message.
OrchRecv ==
    /\ opc = "round"
    /\ chan # <<>>
    /\ LET m == Head(chan)
       IN  /\ last_messages' = [last_messages EXCEPT ![m.tid] = m.act]
           /\ current_activity' =
                 [current_activity EXCEPT ![m.tid] = IF m.act = "Busy" THEN 0 ELSE @ + 1]
    /\ chan' = Tail(chan)
    /\ UNCHANGED <<data, out, entry, mode, nthreads, injector, deque, wpc, held, cur, poke, opc,
                   collected, pushed, log, ncalls, nforks>>

\* `quiescent` after the loop over current_activity
Quiescent == \A w \in Workers : ~(current_activity[w] < 2)

\* rx.try_recv() finds the channel empty and the round finds quiescence:
\* Kill is sent to every worker, or the orchestrator panics on a Busy one.
OrchKill ==
    /\ opc = "round"
    /\ chan = <<>>
    /\ Quiescent
    /\ IF \E w \in Workers : last_messages[w] = "Busy"
       THEN opc' = "panicked" /\ UNCHANGED poke
       ELSE /\ poke' = [w \in Workers |-> Append(poke[w], "Kill")]
            /\ opc' = "done"
    /\ UNCHANGED <<data, out, entry, mode, nthreads, injector, deque, wpc, held, cur, chan, current_activity,
                   last_messages, collected, pushed, log, ncalls, nforks>>

\* A mutation of OrchPoke: the counter of every worker is set to 1, whatever
\* its last message.
OrchPoke_ResetsAll ==
    /\ opc = "round"
    /\ chan = <<>>
    /\ ~Quiescent
    /\ \A w \in Workers : last_messages[w] = "Idle" => Len(poke[w]) < MaxPoke
    /\ IF \E w \in Workers : last_messages[w] = "Idle" /\ wpc[w] = "panicked"
       THEN opc' = "panicked" /\ UNCHANGED <<poke, current_activity>>
       ELSE /\ poke' = [w \in Workers |->
                          IF last_messages[w] = "Idle" THEN Append(poke[w], "Poke") ELSE poke[w]]
            /\ current_activity' = [w \in Workers |-> 1]
            /\ opc' = "round"
    /\ UNCHANGED <<data, out, entry, mode, nthreads, injector, deque, wpc, held, cur, chan,
                   last_messages, collected, pushed, log, ncalls, nforks>>

\* rx.try_recv() finds the channel empty and the round finds no quiescence:
\* every worker whose last message is Idle is poked and its counter set to 1.
\* A send to a worker that has panicked fails, and the unwrap panics.
OrchPoke ==
    /\ opc = "round"
    /\ chan = <<>>
    /\ ~Quiescent
    /\ \A w \in Workers : last_messages[w] = "Idle" => Len(poke[w]) < MaxPoke
    /\ IF \E w \in Workers : last_messages[w] = "Idle" /\ wpc[w] = "panicked"
       THEN opc' = "panicked" /\ UNCHANGED <<poke, current_activity>>
       ELSE /\ poke' = [w \in Workers |->
                          IF last_messages[w] = "Idle" THEN Append(poke[w], "Poke") ELSE poke[w]]
            /\ current_activity' = [w \in Workers |->
                          IF last_messages[w] = "Idle" THEN 1 ELSE current_activity[w]]
            /\ opc' = "round"
    /\ UNCHANGED <<data, out, entry, mode, nthreads, injector, deque, wpc, held, cur, chan,
                   last_messages, collected, pushed, log, ncalls, nforks>>

Next ==
    \/ SinglePop
    \/ \E w \in Workers : WorkerFind(w)
    \/ \E w \in Workers : WorkerSendBusy(w)
    \/ \E w \in Workers : WorkerRun(w)
    \/ \E w \in Workers : WorkerLoop(w)
    \/ \E w \in Workers : WorkerSendIdle(w)
    \/ \E w \in Workers : WorkerRecv(w)
    \/ OrchRecv
    \/ OrchKill
    \/ OrchPoke

Spec == Init /\ [][Next]_vars

\* start_single on each of PathEntries.
InitPaths ==
    /\ entry \in 1..Len(PathEntries)
    /\ mode = "single"
    /\ nthreads = 1
    /\ injector = <<>>
    /\ deque = [w \in Workers |-> <<PathEntries[entry]>>]
    /\ wpc = [w \in Workers |-> "pop"]
    /\ held = [w \in Workers |-> <<>>]
    /\ cur = [w \in Workers |-> <<>>]
    /\ chan = <<>>
    /\ poke = [w \in Workers |-> <<>>]
    /\ opc = "off"
    /\ current_activity = [w \in Workers |-> 0]
    /\ last_messages = [w \in Workers |-> "Busy"]
    /\ collected = TRUE
    /\ pushed = {PathEntries[entry]}
    /\ log = {}
    /\ ncalls = 0
    /\ nforks = 0
    /\ data = <<>>
    /\ out = <<>>

NextPaths ==
    \/ SinglePop
    \/ \E w \in Workers : WorkerRun(w)

SpecPaths == InitPaths /\ [][NextPaths]_vars

\* start_single runs on the calling thread, which keeps running.
FairPaths == SpecPaths /\ WF_vars(NextPaths)

\* The Tasks start_single is started with when calls are followed: those
\* above and the program that calls a function of two parameters.
CallEntries == PathEntries \o <<
    Task(NewFrame(<<>>, EmptyMap, "call2"), NewSolver)
  >>

\* start_single on each of CallEntries.
InitCalls ==
    /\ entry \in 1..Len(CallEntries)
    /\ mode = "single"
    /\ nthreads = 1
    /\ injector = <<>>
    /\ deque = [w \in Workers |-> <<CallEntries[entry]>>]
    /\ wpc = [w \in Workers |-> "pop"]
    /\ held = [w \in Workers |-> <<>>]
    /\ cur = [w \in Workers |-> <<>>]
    /\ chan = <<>>
    /\ poke = [w \in Workers |-> <<>>]
    /\ opc = "off"
    /\ current_activity = [w \in Workers |-> 0]
    /\ last_messages = [w \in Workers |-> "Busy"]
    /\ collected = TRUE
    /\ pushed = {CallEntries[entry]}
    /\ log = {}
    /\ ncalls = 0
    /\ nforks = 0
    /\ data = <<>>
    /\ out = <<>>

SpecCalls == InitCalls /\ [][NextPaths]_vars

(***************************************************************************)
(* get_and_initialize followed on its own: data is the environment and the *)
(* solver it works on, out the results of the lookups made so far.         *)
(***************************************************************************)
\* The engine is not running.
EngineOff ==
    /\ entry = 1
    /\ nthreads = 1
    /\ injector = <<>>
    /\ deque = [w \in Workers |-> <<>>]
    /\ wpc = [w \in Workers |-> "off"]
    /\ held = [w \in Workers |-> <<>>]
    /\ cur = [w \in Workers |-> <<>>]
    /\ chan = <<>>
    /\ poke = [w \in Workers |-> <<>>]
    /\ opc = "off"
    /\ current_activity = [w \in Workers |-> 0]
    /\ last_messages = [w \in Workers |-> "Busy"]
    /\ collected = TRUE
    /\ pushed = {}
    /\ log = {}
    /\ ncalls = 0
    /\ nforks = 0

engine == <<entry, nthreads, injector, deque, wpc, held, cur, chan, poke, opc,
            current_activity, last_messages, collected, pushed, log, ncalls, nforks>>

\* The number of lookups followed.
MaxLookups == 3

\* The values a slot starts with: uninitialised at one of the types, or a
\* concrete value.
SlotVals ==
    {VUninitialized(ty) : ty \in {TyUnit, TyBool, TyI64, TyBits(0), TyBits(2), TyString,
                                   TyStruct("S"), TyStruct("T"), TyStruct("U"), TyEnum("E")}}
        \cup {VBool(TRUE), VI64(3)}

InitLookup ==
    /\ mode = "lookup"
    /\ \E K \in SUBSET {"p", "q"} : \E m \in [K -> SlotVals] :
          data = [vars |-> m, solver |-> NewSolver]
    /\ out = <<>>
    /\ EngineOff

\* One call of get_and_initialize(v, vars, shared_state, solver).
Lookup(v) ==
    /\ mode = "lookup"
    /\ Len(out) < MaxLookups
    /\ LET Apply(r) ==
            /\ data' = [vars |-> r.vars, solver |-> r.solver]
            /\ out' = Append(out, [v |-> v, st |-> r.st, err |-> r.err, found |-> r.found,
                                   val |-> r.val, before |-> data, after |-> data'])
       IN  Apply(get_and_initialize(v, data.vars, data.solver))
    /\ UNCHANGED <<mode, engine>>

\* the keys looked up: those of the slots and one that is always missing
NextLookup == \E v \in {"p", "q", "z"} : Lookup(v)

SpecLookup == InitLookup /\ [][NextLookup]_vars

(***************************************************************************)
(* simplify.rs: renumber_event.  A symbol is a u32, written here as the    *)
(* pair <<high half, low half>> of its 16-bit halves, so that the 32-bit   *)
(* arithmetic of the code is kept exactly; data is the base trace, total   *)
(* and the build's overflow checks, out[i] the events of the base trace    *)
(* renumbered so far with (i, total).                                      *)
(***************************************************************************)
\* `(*v * total) + i` on u32: the wrapped result, and whether the product or
\* the sum overflows (a panic when the build checks overflow).
MulAdd(v, i, total) ==
    LET lo == v[2] * total + i
        hi == v[1] * total + (lo \div 65536)
    IN  [v |-> <<hi % 65536, lo % 65536>>, overflow |-> hi >= 65536]

RECURSIVE renumber_exp(_, _, _)
\* exp.modify applies the closure to every subexpression.
renumber_exp(exp, i, total) ==
    CASE exp.op = "Var" -> SmtVar(MulAdd(exp.v, i, total).v)
      [] exp.op = "Not" -> SmtNot(renumber_exp(exp.a, i, total))
      [] exp.op = "Eq" -> SmtEq(renumber_exp(exp.a, i, total), renumber_exp(exp.b, i, total))
      [] exp.op = "Bvult" -> SmtBvult(renumber_exp(exp.a, i, total), renumber_exp(exp.b, i, total))
      [] OTHER -> exp

\* A mutation of renumber_val: the value inside a constructor is left alone.
RECURSIVE renumber_val_SkipsCtor(_, _, _)
renumber_val_SkipsCtor(val, i, total) ==
    CASE val.tag = "Symbolic" -> VSymbolic(MulAdd(val.v, i, total).v)
      [] val.tag \in {"List", "Vector"} ->
            [val EXCEPT !.elems = [k \in DOMAIN @ |-> renumber_val_SkipsCtor(@[k], i, total)]]
      [] val.tag = "Struct" ->
            [val EXCEPT !.fields = [f \in DOMAIN @ |-> renumber_val_SkipsCtor(@[f], i, total)]]
      [] OTHER -> val

RECURSIVE renumber_val(_, _, _)
renumber_val(val, i, total) ==
    CASE val.tag = "Symbolic" -> VSymbolic(MulAdd(val.v, i, total).v)
      [] val.tag \in {"List", "Vector"} ->
            [val EXCEPT !.elems = [k \in DOMAIN @ |-> renumber_val(@[k], i, total)]]
      [] val.tag = "Struct" ->
            [val EXCEPT !.fields = [f \in DOMAIN @ |-> renumber_val(@[f], i, total)]]
      [] val.tag = "Ctor" -> [val EXCEPT !.val = renumber_val(@, i, total)]
      [] OTHER -> val

renumber_def(def, i, total) ==
    CASE def.def = "DeclareConst" -> DeclareConst(MulAdd(def.v, i, total).v, def.sort)
      [] def.def = "DefineConst" ->
            DefineConst(MulAdd(def.v, i, total).v, renumber_exp(def.e, i, total))
      [] def.def = "Assert" -> AssertDef(renumber_exp(def.e, i, total))

RECURSIVE Symbols(_)
\* The symbols that occur in an event, a definition, an expression or a value.
Symbols(x) ==
    LET All(f) == UNION {Symbols(f[k]) : k \in DOMAIN f}
    IN  CASE "ev" \in DOMAIN x ->
               CASE x.ev = "Smt" -> Symbols(x.def)
                 [] x.ev \in {"Branch", "Sleeping"} -> {x.v}
                 [] x.ev \in {"ReadReg", "WriteReg", "Instr"} -> Symbols(x.value)
                 [] x.ev = "ReadMem" ->
                       Symbols(x.value) \cup Symbols(x.read_kind) \cup Symbols(x.address)
                 [] x.ev = "WriteMem" ->
                       {x.v} \cup Symbols(x.write_kind) \cup Symbols(x.address)
                           \cup Symbols(x.data)
                 [] OTHER -> {}
          [] "def" \in DOMAIN x ->
               CASE x.def = "DeclareConst" -> {x.v}
                 [] x.def = "DefineConst" -> {x.v} \cup Symbols(x.e)
                 [] OTHER -> Symbols(x.e)
          [] "op" \in DOMAIN x ->
               CASE x.op = "Var" -> {x.v}
                 [] x.op = "Not" -> Symbols(x.a)
                 [] x.op \in {"Eq", "Bvult"} -> Symbols(x.a) \cup Symbols(x.b)
                 [] OTHER -> {}
          [] OTHER ->
               CASE x.tag = "Symbolic" -> {x.v}
                 [] x.tag \in {"List", "Vector"} -> All(x.elems)
                 [] x.tag = "Struct" -> All(x.fields)
                 [] x.tag = "Ctor" -> Symbols(x.val)
                 [] OTHER -> {}

\* renumber_event(event, i, total) of a build with or without overflow
\* checks: st is "ok" with the event as it is left, or "panic".
renumber_event(event, i, total, checks) ==
    IF ~(i < total) THEN [st |-> "panic", event |-> event]
    ELSE IF checks /\ \E v \in Symbols(event) : MulAdd(v, i, total).overflow
    THEN [st |-> "panic", event |-> event]
    ELSE [st |-> "ok",
          event |->
            CASE event.ev = "Smt" -> [event EXCEPT !.def = renumber_def(@, i, total)]
              [] event.ev \in {"Branch", "Sleeping"} ->
                    [event EXCEPT !.v = MulAdd(@, i, total).v]
              [] event.ev \in {"ReadReg", "WriteReg", "Instr"} ->
                    [event EXCEPT !.value = renumber_val(@, i, total)]
              [] event.ev = "ReadMem" ->
                    [event EXCEPT !.value = renumber_val(@, i, total),
                                  !.read_kind = renumber_val(@, i, total),
                                  !.address = renumber_val(@, i, total)]
              [] event.ev = "WriteMem" ->
                    [event EXCEPT !.v = MulAdd(@, i, total).v,
                                  !.write_kind = renumber_val(@, i, total),
                                  !.address = renumber_val(@, i, total),
                                  !.data = renumber_val(@, i, total)]
              [] OTHER -> event]

\* The largest total and the largest index i that are followed.
MaxTotal == 3

\* The base traces: definitions and uses of the symbols 0, 1, 2; register
\* and instruction events with nested values; memory events and the events
\* without symbols; and two traces with symbols high in the u32 range
\* (0xAAAAAAAB, and 0x80000000 and 0xFFFFFFFF).
BaseTraces == <<
    << [ev |-> "Smt", def |-> DeclareConst(<<0, 0>>, SortBool)],
       [ev |-> "Smt", def |-> DeclareConst(<<0, 1>>, SortBool)],
       [ev |-> "Smt", def |-> DefineConst(<<0, 2>>, SmtEq(SmtVar(<<0, 0>>),
                                                        SmtNot(SmtVar(<<0, 1>>))))],
       [ev |-> "Smt", def |-> AssertDef(SmtVar(<<0, 2>>))] >>,
    << [ev |-> "ReadReg", n |-> "R", acc |-> <<>>,
        value |-> VStruct([a |-> VSymbolic(<<0, 0>>),
                           b |-> VVector(<<VSymbolic(<<0, 1>>), VI64(3)>>)])],
       [ev |-> "WriteReg", n |-> "R", acc |-> <<>>,
        value |-> [tag |-> "List",
                   elems |-> <<[tag |-> "Ctor", c |-> "Some", val |-> VSymbolic(<<0, 2>>)]>>]],
       [ev |-> "Instr", value |-> VSymbolic(<<0, 1>>)],
       [ev |-> "Branch", v |-> <<0, 0>>, s |-> "b"],
       [ev |-> "Sleeping", v |-> <<0, 2>>] >>,
    << [ev |-> "ReadMem", value |-> VSymbolic(<<0, 0>>), read_kind |-> VSymbolic(<<0, 1>>),
        address |-> VSymbolic(<<0, 2>>), bytes |-> 4],
       [ev |-> "WriteMem", v |-> <<0, 3>>, write_kind |-> VSymbolic(<<0, 1>>),
        address |-> VSymbolic(<<0, 2>>), data |-> VSymbolic(<<0, 0>>), bytes |-> 4],
       [ev |-> "Cycle"],
       [ev |-> "SleepRequest"],
       [ev |-> "WakeupRequest"] >>,
    << [ev |-> "Smt", def |-> DeclareConst(<<0, 0>>, SortBool)],
       [ev |-> "Smt", def |-> DeclareConst(<<43690, 43691>>, SortBool)],
       [ev |-> "Smt", def |-> AssertDef(SmtEq(SmtVar(<<0, 0>>), SmtVar(<<43690, 43691>>)))] >>,
    << [ev |-> "Smt", def |-> DeclareConst(<<32768, 0>>, SortBool)],
       [ev |-> "Instr", value |-> VSymbolic(<<65535, 65535>>)] >>
  >>

InitRenumber ==
    /\ mode = "renumber"
    /\ \E b \in 1..Len(BaseTraces), t \in 0..MaxTotal, c \in BOOLEAN :
          data = [base |-> BaseTraces[b], total |-> t, checks |-> c]
    /\ out = [i \in 0..MaxTotal |-> <<>>]
    /\ EngineOff

\* One call of renumber_event, on the next event of the copy of the base
\* trace that is renumbered with (i, total); a panic ends that renumbering.
Renumber(i) ==
    /\ mode = "renumber"
    /\ Len(out[i]) < Len(data.base)
    /\ \A k \in 1..Len(out[i]) : out[i][k].st = "ok"
    /\ out' = [out EXCEPT ![i] = Append(@, renumber_event(data.base[Len(@) + 1], i,
                                                          data.total, data.checks))]
    /\ UNCHANGED <<mode, data, engine>>

NextRenumber == \E i \in 0..MaxTotal : Renumber(i)

SpecRenumber == InitRenumber /\ [][NextRenumber]_vars

(***************************************************************************)
(* simplify.rs: remove_unused and EventReferences.  data.xs is the event   *)
(* list given to the function; symbols are written as in the renumbering   *)
(* section.  A uses map (HashMap<u32, u32>) is a function from the symbols *)
(* that are its keys to their counts.                                      *)
(***************************************************************************)
\* uses.insert(*v, uses.get(&v).unwrap_or(&0) + 1)
Bump(uses, v) ==
    IF v \in DOMAIN uses THEN [uses EXCEPT ![v] = @ + 1] ELSE (v :> 1) @@ uses

RECURSIVE uses_in_exp(_, _)
uses_in_exp(uses, exp) ==
    CASE exp.op = "Var" -> Bump(uses, exp.v)
      [] exp.op = "Not" -> uses_in_exp(uses, exp.a)
      [] exp.op \in {"Eq", "Bvult"} -> uses_in_exp(uses_in_exp(uses, exp.a), exp.b)
      [] OTHER -> uses

RECURSIVE FieldVals(_)
\* fields.iter() of a struct value: its values, one after the other
FieldVals(fields) ==
    IF DOMAIN fields = {} THEN <<>>
    ELSE LET f == CHOOSE g \in DOMAIN fields : TRUE
         IN  <<fields[f]>> \o FieldVals([g \in DOMAIN fields \ {f} |-> fields[g]])

RECURSIVE uses_in_value(_, _)
RECURSIVE uses_in_values(_, _)
\* vals.iter().for_each(|val| uses_in_value(uses, val))
uses_in_values(uses, vals) ==
    IF vals = <<>> THEN uses
    ELSE uses_in_values(uses_in_value(uses, Head(vals)), Tail(vals))

uses_in_value(uses, val) ==
    CASE val.tag = "Symbolic" -> Bump(uses, val.v)
      [] val.tag \in {"List", "Vector"} -> uses_in_values(uses, val.elems)
      [] val.tag = "Struct" -> uses_in_values(uses, FieldVals(val.fields))
      [] val.tag = "Ctor" -> uses_in_value(uses, val.val)
      [] OTHER -> uses

\* The match of the first loop of remove_unused_pass, for one event.
uses_in_event(uses, event) ==
    CASE event.ev = "Smt" ->
            IF event.def.def = "DeclareConst" THEN uses ELSE uses_in_exp(uses, event.def.e)
      [] event.ev \in {"ReadReg", "WriteReg", "Instr"} -> uses_in_value(uses, event.value)
      [] event.ev = "ReadMem" ->
            uses_in_value(uses_in_value(uses, event.read_kind), event.address)
      [] event.ev = "WriteMem" ->
            uses_in_value(uses_in_value(uses_in_value(uses, event.write_kind),
                                        event.address), event.data)
      [] event.ev \in {"Branch", "Sleeping"} -> Bump(uses, event.v)
      [] OTHER -> uses

RECURSIVE uses_in_events(_, _)
\* for event in events.iter().rev()
uses_in_events(uses, events) ==
    IF events = <<>> THEN uses
    ELSE uses_in_events(uses_in_event(uses, events[Len(events)]), SubSeq(events, 1, Len(events) - 1))

\* A mutation of retain: a definition is kept whether it is used or not.
retain_KeepsDefine(uses, event) ==
    IF event.ev = "Smt" /\ event.def.def = "DeclareConst"
    THEN event.def.v \in DOMAIN uses
    ELSE TRUE

\* The closure of events.retain(..): is the event kept?
retain(uses, event) ==
    IF event.ev = "Smt" /\ event.def.def \in {"DeclareConst", "DefineConst"}
    THEN event.def.v \in DOMAIN uses
    ELSE TRUE

\* A mutation of remove_unused_pass: the events that are kept come out in
\* the order of the walk that counted the uses, last first.
remove_unused_pass_Reversed(events) ==
    LET Kept(uses) == SelectSeq(events, LAMBDA e : retain(uses, e))
        Result(kept) == [events |-> [k \in 1..Len(kept) |-> kept[Len(kept) + 1 - k]],
                         removed |-> Len(events) - Len(kept)]
    IN  Result(Kept(uses_in_events(<<>>, events)))

remove_unused_pass(events) ==
    LET Kept(uses) == SelectSeq(events, LAMBDA e : retain(uses, e))
        Result(kept) == [events |-> kept, removed |-> Len(events) - Len(kept)]
    IN  Result(Kept(uses_in_events(<<>>, events)))

\* A mutation of remove_unused: a single pass.
remove_unused_once(removed) == FALSE

\* `if removed > 0` of remove_unused: does it call itself again?
remove_unused_again(removed) == removed > 0

\* The longest event list that is given to remove_unused.
MaxEvents == 4

S(n) == <<0, n>>

\* The events the lists are made of: declarations and definitions that use
\* each other in a chain and in a cycle, and uses in every kind of event.
EventPool == {
    [ev |-> "Smt", def |-> DeclareConst(S(0), SortBool)],
    [ev |-> "Smt", def |-> DeclareConst(S(1), SortBool)],
    [ev |-> "Smt", def |-> DefineConst(S(2), SmtNot(SmtVar(S(0))))],
    [ev |-> "Smt", def |-> DefineConst(S(3), SmtEq(SmtVar(S(2)), SmtVar(S(1))))],
    [ev |-> "Smt", def |-> DefineConst(S(1), SmtVar(S(1)))],
    [ev |-> "Smt", def |-> AssertDef(SmtVar(S(3)))],
    [ev |-> "ReadMem", value |-> VSymbolic(S(0)), read_kind |-> VUnit,
     address |-> VSymbolic(S(1)), bytes |-> 4],
    [ev |-> "WriteMem", v |-> S(2), write_kind |-> VUnit,
     address |-> VI64(8), data |-> VSymbolic(S(3)), bytes |-> 4],
    [ev |-> "ReadReg", n |-> "R", acc |-> <<>>,
     value |-> VStruct([a |-> VSymbolic(S(2)), b |-> VVector(<<VSymbolic(S(0)), VI64(3)>>)])],
    [ev |-> "Branch", v |-> S(3), s |-> "b"],
    [ev |-> "Cycle"] }

EventLists == UNION {[1..n -> EventPool] : n \in 0..MaxEvents}

InitSimplify ==
    /\ mode = "simplify"
    /\ \E xs \in EventLists : data = [xs |-> xs]
    /\ out = [call |-> 1, st |-> "run", events |-> data.xs, passes |-> 0, first |-> <<>>]
    /\ EngineOff

\* One call of remove_unused_pass by remove_unused, which then calls itself
\* on the events that are left or returns them.
RemoveUnusedPass ==
    /\ mode = "simplify"
    /\ out.st = "run"
    /\ LET Apply(r) ==
            out' = [out EXCEPT !.events = r.events,
                               !.passes = @ + 1,
                               !.st = IF remove_unused_again(r.removed) THEN "run" ELSE "done"]
       IN  Apply(remove_unused_pass(out.events))
    /\ UNCHANGED <<mode, data, engine>>

\* remove_unused is called on the list its first call returned.
RemoveUnusedAgain ==
    /\ mode = "simplify"
    /\ out.st = "done"
    /\ out.call = 1
    /\ out' = [out EXCEPT !.call = 2, !.st = "run", !.passes = 0, !.first = out.events]
    /\ UNCHANGED <<mode, data, engine>>

NextSimplify == RemoveUnusedPass \/ RemoveUnusedAgain

SpecSimplify == InitSimplify /\ [][NextSimplify]_vars

\* One event of every kind, with symbols that are declared, defined and used.
KindPool == {
    [ev |-> "Smt", def |-> DeclareConst(S(0), SortBool)],
    [ev |-> "Smt", def |-> DefineConst(S(1), SmtNot(SmtVar(S(0))))],
    [ev |-> "Smt", def |-> AssertDef(SmtVar(S(1)))],
    [ev |-> "ReadReg", n |-> "R", acc |-> <<>>, value |-> VSymbolic(S(0))],
    [ev |-> "WriteReg", n |-> "R", acc |-> <<>>, value |-> VI64(3)],
    [ev |-> "ReadMem", value |-> VSymbolic(S(0)), read_kind |-> VUnit,
     address |-> VI64(8), bytes |-> 4],
    [ev |-> "WriteMem", v |-> S(1), write_kind |-> VUnit,
     address |-> VI64(8), data |-> VI64(0), bytes |-> 4],
    [ev |-> "Branch", v |-> S(1), s |-> "b"],
    [ev |-> "Instr", value |-> VI64(7)],
    [ev |-> "Cycle"],
    [ev |-> "Sleeping", v |-> S(0)],
    [ev |-> "SleepRequest"],
    [ev |-> "WakeupRequest"] }

KindLists == UNION {[1..n -> KindPool] : n \in 0..MaxEvents}

InitKinds ==
    /\ mode = "simplify"
    /\ \E xs \in KindLists : data = [xs |-> xs]
    /\ out = [call |-> 1, st |-> "run", events |-> data.xs, passes |-> 0, first |-> <<>>]
    /\ EngineOff

\* remove_unused on lists of events of every kind.
SpecKinds == InitKinds /\ [][NextSimplify]_vars

\* EventReferences::from_events: the uses of the last definition of each id
from_events(events) ==
    LET Defs == {k \in 1..Len(events) :
                    events[k].ev = "Smt" /\ events[k].def.def = "DefineConst"}
        Last(id) == CHOOSE k \in Defs :
                        /\ events[k].def.v = id
                        /\ \A j \in Defs : events[j].def.v = id => j <= k
    IN  [id \in {events[k].def.v : k \in Defs} |-> uses_in_exp(<<>>, events[Last(id)].def.e)]

\* A mutation of next_deps: a symbol that has been seen is followed again.
next_deps_NoSeen(references, deps, seen) ==
    UNION {IF symbol \in DOMAIN references THEN DOMAIN references[symbol] ELSE {}
             : symbol \in deps}

\* One turn of the loop of dependencies: the symbols to add
next_deps(references, deps, seen) ==
    UNION {IF symbol \in DOMAIN references THEN DOMAIN references[symbol] ELSE {}
             : symbol \in deps \ seen}

InitDeps ==
    /\ mode = "deps"
    /\ \E xs \in EventLists, n \in 0..3 : data = [xs |-> xs, symbol |-> S(n)]
    /\ out = [st |-> "run", deps |-> {data.symbol}, seen |-> {}, turns |-> 0]
    /\ EngineOff

\* One turn of the loop of dependencies(symbol)
DependenciesLoop ==
    /\ mode = "deps"
    /\ out.st = "run"
    /\ LET Apply(next) ==
            out' = [out EXCEPT !.seen = @ \cup out.deps,
                               !.deps = @ \cup next,
                               !.turns = @ + 1,
                               !.st = IF next = {} THEN "done" ELSE "run"]
       IN  Apply(next_deps(from_events(data.xs), out.deps, out.seen))
    /\ UNCHANGED <<mode, data, engine>>

NextDeps == DependenciesLoop

SpecDeps == InitDeps /\ [][NextDeps]_vars

RECURSIVE dependencies_loop(_, _, _)
\* The loop of dependencies, from the sets a turn starts with to the result.
dependencies_loop(references, deps, seen) ==
    LET Turn(next) == IF next = {} THEN deps
                      ELSE dependencies_loop(references, deps \cup next, seen \cup deps)
    IN  Turn(next_deps(references, deps, seen))

dependencies(references, symbol) == dependencies_loop(references, {symbol}, {})

\* A mutation of taints: the value of a register read counts only when it is
\* itself a symbol.
taints_TopLevelOnly(references, symbol, events) ==
    LET Walk(deps) ==
            [taints |-> {events[k].n :
                           k \in {j \in 1..Len(events) :
                                    /\ events[j].ev = "ReadReg"
                                    /\ events[j].value.tag = "Symbolic"
                                    /\ events[j].value.v \in deps}},
             memory |-> \E k \in 1..Len(events) :
                            /\ events[k].ev = "ReadMem"
                            /\ events[k].value.tag = "Symbolic"
                            /\ events[k].value.v \in deps]
    IN  Walk(dependencies(references, symbol))

\* EventReferences::taints: the registers read with a value that uses a
\* dependency of the symbol, and whether a memory read has one as its value.
taints(references, symbol, events) ==
    LET Walk(deps) ==
            [taints |-> {events[k].n :
                           k \in {j \in 1..Len(events) :
                                    /\ events[j].ev = "ReadReg"
                                    /\ DOMAIN uses_in_value(<<>>, events[j].value) \cap deps # {}}},
             memory |-> \E k \in 1..Len(events) :
                            /\ events[k].ev = "ReadMem"
                            /\ events[k].value.tag = "Symbolic"
                            /\ events[k].value.v \in deps]
    IN  Walk(dependencies(references, symbol))

\* The events the lists given to taints are made of: a chain of definitions,
\* register reads with a nested, a plain and no symbol, memory reads with a
\* symbol as value and with symbols elsewhere, and events of other kinds that
\* use the same symbols.
TaintPool == {
    [ev |-> "Smt", def |-> DefineConst(S(2), SmtNot(SmtVar(S(0))))],
    [ev |-> "Smt", def |-> DefineConst(S(3), SmtEq(SmtVar(S(2)), SmtVar(S(1))))],
    [ev |-> "ReadReg", n |-> "R", acc |-> <<>>,
     value |-> VStruct([a |-> VI64(1), b |-> VVector(<<VSymbolic(S(0)), VI64(3)>>)])],
    [ev |-> "ReadReg", n |-> "P", acc |-> <<>>, value |-> VSymbolic(S(1))],
    [ev |-> "ReadReg", n |-> "Q", acc |-> <<>>, value |-> VI64(3)],
    [ev |-> "WriteReg", n |-> "W", acc |-> <<>>, value |-> VSymbolic(S(0))],
    [ev |-> "ReadMem", value |-> VSymbolic(S(0)), read_kind |-> VUnit,
     address |-> VI64(8), bytes |-> 4],
    [ev |-> "ReadMem", value |-> VVector(<<VSymbolic(S(1))>>), read_kind |-> VUnit,
     address |-> VSymbolic(S(1)), bytes |-> 4],
    [ev |-> "WriteMem", v |-> S(0), write_kind |-> VUnit,
     address |-> VSymbolic(S(1)), data |-> VSymbolic(S(0)), bytes |-> 4],
    [ev |-> "Branch", v |-> S(1), s |-> "b"] }

TaintLists == UNION {[1..n -> TaintPool] : n \in 0..MaxEvents}

InitTaints ==
    /\ mode = "taints"
    /\ \E xs \in TaintLists, n \in 1..3 : data = [xs |-> xs, symbol |-> S(n)]
    /\ out = [st |-> "run", taints |-> {}, memory |-> FALSE]
    /\ EngineOff

\* EventReferences::from_events(events).taints(symbol, events)
Taints ==
    /\ mode = "taints"
    /\ out.st = "run"
    /\ LET Apply(r) == out' = [st |-> "done", taints |-> r.taints, memory |-> r.memory]
       IN  Apply(taints(from_events(data.xs), data.symbol, data.xs))
    /\ UNCHANGED <<mode, data, engine>>

NextTaints == Taints

SpecTaints == InitTaints /\ [][NextTaints]_vars

(***************************************************************************)
(* concrete.rs: Sbits.  A u64 is written as its eight bytes, the least     *)
(* significant first, and a natural number of any size as a sequence of    *)
(* bytes, so that the 64-bit arithmetic of the code and the arithmetic     *)
(* without a width are both exact.  The bzhi instruction is taken to be    *)
(* there (the code calls it without testing the CPU).                      *)
(***************************************************************************)
Limb(x, k) == IF k \in 1..Len(x) THEN x[k] ELSE 0

\* x as a sequence of n bytes (the bytes above are dropped)
Fit(x, n) == [k \in 1..n |-> Limb(x, k)]

IsZero(x) == \A k \in 1..Len(x) : x[k] = 0

\* a + b, without a width
BigAdd(a, b) ==
    LET n == (IF Len(a) > Len(b) THEN Len(a) ELSE Len(b)) + 1
        c[k \in 1..n] ==
            IF k = 1 THEN 0 ELSE (Limb(a, k - 1) + Limb(b, k - 1) + c[k - 1]) \div 256
    IN  [k \in 1..n |-> (Limb(a, k) + Limb(b, k) + c[k]) % 256]

\* a < b
BigLess(a, b) ==
    LET n == IF Len(a) > Len(b) THEN Len(a) ELSE Len(b)
    IN  \E k \in 1..n :
            /\ Limb(a, k) < Limb(b, k)
            /\ \A j \in (k + 1)..n : Limb(a, j) = Limb(b, j)

\* a - b, for b <= a
BigSub(a, b) ==
    LET n == Len(a)
        c[k \in 1..n] ==
            IF k = 1 THEN 0
            ELSE IF Limb(a, k - 1) - Limb(b, k - 1) - c[k - 1] < 0 THEN 1 ELSE 0
    IN  [k \in 1..n |-> (Limb(a, k) - Limb(b, k) - c[k] + 256) % 256]

RECURSIVE Column(_, _, _, _)
\* the sum of a[i] * b[j] over i + j = k + 1, from i on
Column(a, b, k, i) ==
    IF i > Len(a) \/ i > k THEN 0
    ELSE a[i] * Limb(b, k + 1 - i) + Column(a, b, k, i + 1)

\* a * b, without a width
BigMul(a, b) ==
    LET n == Len(a) + Len(b)
        c[k \in 1..n] ==
            IF k = 1 THEN 0 ELSE (Column(a, b, k - 1, 1) + c[k - 1]) \div 256
    IN  [k \in 1..n |-> (Column(a, b, k, 1) + c[k]) % 256]

RECURSIVE Pow2Small(_)
Pow2Small(n) == IF n = 0 THEN 1 ELSE 2 * Pow2Small(n - 1)

\* 2^n, without a width
BigPow2(n) == [k \in 1..((n \div 8) + 1) |-> IF k = (n \div 8) + 1 THEN Pow2Small(n % 8) ELSE 0]

\* x mod 2^n, in as many bytes as x has
BigMod2(x, n) ==
    [k \in 1..Len(x) |->
        IF k <= n \div 8 THEN x[k]
        ELSE IF k = (n \div 8) + 1 THEN x[k] % Pow2Small(n % 8)
        ELSE 0]

RECURSIVE DivMod(_, _, _, _, _)
\* Long division of the u64 a by b # 0, a byte at a time from byte k down:
\* the quotient q and the remainder r so far.
DivMod(a, b, k, q, r) ==
    IF k = 0 THEN [q |-> q, r |-> r]
    ELSE LET r2 == <<a[k]>> \o r
             Digit(d) == BigMul(<<d>>, b)
             Go(d) == DivMod(a, b, k - 1, <<d>> \o q, Fit(BigSub(Fit(r2, 9), Digit(d)), 8))
         IN  Go(CHOOSE d \in 0..255 :
                    /\ ~BigLess(r2, Digit(d))
                    /\ BigLess(r2, BigAdd(Digit(d), b)))

RECURSIVE Bitwise8(_, _, _, _)
\* the bytes x and y combined bit by bit with f, over n bits
Bitwise8(f(_, _), x, y, n) ==
    IF n = 0 THEN 0
    ELSE f(x % 2, y % 2) + 2 * Bitwise8(f, x \div 2, y \div 2, n - 1)

Bitwise(f(_, _), a, b) == [k \in 1..8 |-> Bitwise8(f, a[k], b[k], 8)]

\* The width of the u64 word.
WordBits == 64

\* the u64 arithmetic of the build: the wrapped result, and whether the
\* operation overflows (a panic when the build checks overflow)
u64_add(a, b) ==
    LET K(s) == [v |-> Fit(s, 8), overflow |-> s[9] # 0] IN K(Fit(BigAdd(a, b), 9))

u64_sub(a, b) ==
    [v |-> Fit(BigSub(BigAdd(a, BigPow2(WordBits)), b), 8), overflow |-> BigLess(a, b)]

u64_mul(a, b) ==
    LET K(p) == [v |-> Fit(p, 8), overflow |-> \E k \in 9..Len(p) : p[k] # 0]
    IN  K(BigMul(a, b))

\* (-(bits as i64)) as u64: the negation of i64::MIN overflows
i64_neg(a) ==
    [v |-> Fit(BigSub(BigPow2(WordBits), a), 8), overflow |-> a = Fit(BigPow2(WordBits - 1), 8)]

u64_not(a) == [k \in 1..8 |-> 255 - a[k]]

\* _bzhi_u64(bits, len): the bits from index len[7:0] up are zeroed; the
\* word is unchanged for an index of 64 or more.
bzhi_u64(bits, len) ==
    IF len % 256 >= WordBits THEN bits ELSE BigMod2(bits, len % 256)

SbitsNew(bits, length) == [length |-> length, bits |-> bits]

SbitsOk(length, bits) == [st |-> "ok", length |-> length, bits |-> bits]

Panic == [st |-> "panic", length |-> 0, bits |-> <<>>]

\* the result of an operation on u64 that panics on overflow when the build
\* checks it, masked to the length of self
Checked(self, r, checks) ==
    IF checks /\ r.overflow THEN Panic ELSE SbitsOk(self.length, bzhi_u64(r.v, self.length))

Sbits_not(self) == SbitsOk(self.length, bzhi_u64(u64_not(self.bits), self.length))

Sbits_bitxor(self, rhs) ==
    SbitsOk(self.length, Bitwise(LAMBDA x, y : (x + y) % 2, self.bits, rhs.bits))

Sbits_bitor(self, rhs) ==
    SbitsOk(self.length, Bitwise(LAMBDA x, y : IF x + y > 0 THEN 1 ELSE 0, self.bits, rhs.bits))

Sbits_bitand(self, rhs) ==
    SbitsOk(self.length, Bitwise(LAMBDA x, y : x * y, self.bits, rhs.bits))

Sbits_neg(self, checks) == Checked(self, i64_neg(self.bits), checks)

Sbits_add(self, rhs, checks) == Checked(self, u64_add(self.bits, rhs.bits), checks)

Sbits_sub(self, rhs, checks) == Checked(self, u64_sub(self.bits, rhs.bits), checks)

Sbits_mul(self, rhs, checks) == Checked(self, u64_mul(self.bits, rhs.bits), checks)

\* the division of u64 panics on a zero divisor in every build
Sbits_div(self, rhs) ==
    IF IsZero(rhs.bits) THEN Panic
    ELSE SbitsOk(self.length,
              bzhi_u64(DivMod(self.bits, rhs.bits, 8, <<>>, <<>>).q,
                       self.length))

Sbits_rem(self, rhs) ==
    IF IsZero(rhs.bits) THEN Panic
    ELSE SbitsOk(self.length,
              bzhi_u64(DivMod(self.bits, rhs.bits, 8, <<>>, <<>>).r, self.length))

SbitsOps == {"not", "bitxor", "bitor", "bitand", "neg", "add", "sub", "div", "rem", "mul"}

SbitsApply(op, self, rhs, checks) ==
    CASE op = "not" -> Sbits_not(self)
      [] op = "bitxor" -> Sbits_bitxor(self, rhs)
      [] op = "bitor" -> Sbits_bitor(self, rhs)
      [] op = "bitand" -> Sbits_bitand(self, rhs)
      [] op = "neg" -> Sbits_neg(self, checks)
      [] op = "add" -> Sbits_add(self, rhs, checks)
      [] op = "sub" -> Sbits_sub(self, rhs, checks)
      [] op = "div" -> Sbits_div(self, rhs)
      [] op = "rem" -> Sbits_rem(self, rhs)
      [] op = "mul" -> Sbits_mul(self, rhs, checks)

\* a small number as a u64
U64(n) == Fit(<<n>>, 8)

\* The operands: well-formed bitvectors of the lengths 0, 1, 3, 4, 8, 63 and
\* 64, with the values 0, 1, 2^(length-1) and 2^length - 1 among them.
SbitsPool == {
    SbitsNew(U64(0), 0),
    SbitsNew(U64(0), 1), SbitsNew(U64(1), 1),
    SbitsNew(U64(0), 3), SbitsNew(U64(1), 3), SbitsNew(U64(2), 3), SbitsNew(U64(7), 3),
    SbitsNew(U64(1), 4), SbitsNew(U64(4), 4),
    SbitsNew(U64(128), 8), SbitsNew(U64(255), 8),
    SbitsNew(U64(1), 63), SbitsNew(<<255, 255, 255, 255, 255, 255, 255, 127>>, 63),
    SbitsNew(U64(0), 64), SbitsNew(U64(3), 64),
    SbitsNew(<<0, 0, 0, 0, 0, 0, 0, 128>>, 64),
    SbitsNew(<<255, 255, 255, 255, 255, 255, 255, 255>>, 64) }

InitSbits ==
    /\ mode = "sbits"
    /\ \E a, b \in SbitsPool, c \in BOOLEAN : data = [self |-> a, rhs |-> b, checks |-> c]
    /\ out = <<>>
    /\ EngineOff

\* One operator of Sbits is applied to the operands.
SbitsOp(op) ==
    /\ mode = "sbits"
    /\ out = <<>>
    /\ out' = [op |-> op, r |-> SbitsApply(op, data.self, data.rhs, data.checks)]
    /\ UNCHANGED <<mode, data, engine>>

NextSbits == \E op \in SbitsOps : SbitsOp(op)

SpecSbits == InitSbits /\ [][NextSbits]_vars

(***************************************************************************)
(* find_task with the results of the steal attempts.  data holds the       *)
(* queues: deque[0] is the local queue of the worker that calls find_task  *)
(* (its stealer is registered like the others), deque[1] and deque[2] are  *)
(* those of its peers, and injector is the global queue.  An attempt on an *)
(* empty queue reports Empty; one on a queue that holds a Task succeeds or *)
(* loses a race and reports Retry.                                         *)
(***************************************************************************)
Stealers == <<0, 1, 2>>

\* The turns of the loop of find_task that are followed.
MaxTries == 2

\* s.steal(), and the attempt on the injector
steal(q, lost) == IF q = <<>> THEN "Empty" ELSE IF lost THEN "Retry" ELSE "Success"

\* stealers.iter().map(|s| s.steal()).collect(): the attempts up to the first
\* Success; sum is that Success, or Retry if an attempt reported Retry, or
\* Empty.  at is the place in stealers of the Success.
collect(queues, lost) ==
    LET o == [k \in 1..Len(Stealers) |-> steal(queues[Stealers[k]], lost[Stealers[k]])]
        Hits == {k \in 1..Len(Stealers) : o[k] = "Success"}
        First == IF Hits = {} THEN Len(Stealers)
                 ELSE CHOOSE k \in Hits : \A j \in Hits : k <= j
    IN  [obs |-> [k \in 1..Len(Stealers) |-> IF k <= First THEN o[k] ELSE "skipped"],
         at |-> First,
         sum |-> IF Hits # {} THEN "Success"
                 ELSE IF \E k \in 1..Len(Stealers) : o[k] = "Retry" THEN "Retry"
                 ELSE "Empty"]

\* A mutation of or_else: a Retry of the stealers is forgotten when the
\* injector is empty.
or_else_ForgetsRetry(stolen, other) ==
    IF stolen = "Success" THEN "Success" ELSE other

\* stolen.or_else(|| global.steal_batch_and_pop(local)), on the kinds of the
\* two results (other is "skipped" when the closure is not called)
or_else(stolen, other) ==
    CASE stolen = "Success" -> "Success"
      [] stolen = "Empty" -> other
      [] OTHER -> IF other = "Success" THEN "Success" ELSE "Retry"

InitFindTask ==
    /\ mode = "find_task"
    /\ \E l \in {<<>>, <<1>>, <<1, 2>>}, p \in {<<>>, <<3>>, <<3, 4>>}, q \in {<<>>, <<5>>},
          g \in {<<>>, <<6>>, <<6, 7>>} :
          data = [deque |-> [s \in {0, 1, 2} |-> IF s = 0 THEN l ELSE IF s = 1 THEN p ELSE q],
                  injector |-> g]
    /\ out = [st |-> "pop", task |-> 0, from |-> "none", tries |-> 0,
              before |-> data, obs |-> <<>>, inj |-> "skipped"]
    /\ EngineOff

\* local.pop()
FindTaskPop ==
    /\ mode = "find_task"
    /\ out.st = "pop"
    /\ IF data.deque[0] # <<>>
       THEN /\ out' = [out EXCEPT !.st = "some", !.task = PopTask(data.deque[0]),
                                  !.from = "local", !.before = data]
            /\ data' = [data EXCEPT !.deque[0] = PopRest(@)]
       ELSE /\ out' = [out EXCEPT !.st = "scan", !.before = data]
            /\ UNCHANGED data
    /\ UNCHANGED <<mode, engine>>

\* One turn of the repeat_with loop: an attempt on every stealer up to the
\* first Success and, if none succeeds, on the injector, whose batch of one
\* Task and n more goes through the local queue.  The loop goes on while
\* the result is Retry.
FindTaskScan ==
    /\ mode = "find_task"
    /\ out.st = "scan"
    /\ \E lost \in [{0, 1, 2} -> BOOLEAN], lostg \in BOOLEAN, n \in 0..1 :
         LET c == collect(data.deque, lost)
             other == IF c.sum = "Success" THEN "skipped" ELSE steal(data.injector, lostg)
             s == or_else(c.sum, other)
             more == IF Len(data.injector) - 1 < n THEN Len(data.injector) - 1 ELSE n
         IN  /\ s = "Retry" => out.tries < MaxTries
             /\ out' = [st |-> CASE s = "Success" -> "some" [] s = "Retry" -> "scan"
                                 [] OTHER -> "none",
                        task |-> IF c.sum = "Success" THEN StealTask(data.deque[Stealers[c.at]])
                                 ELSE IF s = "Success" THEN Head(data.injector) ELSE 0,
                        from |-> IF c.sum = "Success" THEN "peer"
                                 ELSE IF s = "Success" THEN "injector" ELSE "none",
                        tries |-> out.tries + 1,
                        before |-> data, obs |-> c.obs, inj |-> other]
             /\ data' = IF c.sum = "Success"
                        THEN [data EXCEPT !.deque[Stealers[c.at]] = StealRest(@)]
                        ELSE IF s = "Success"
                        THEN [data EXCEPT !.injector = SubSeq(@, 2 + more, Len(@)),
                                          !.deque[0] = Push(@, SubSeq(data.injector, 2, 1 + more))]
                        ELSE data
    /\ UNCHANGED <<mode, engine>>

\* A peer takes a Task off its own queue while find_task is under way.
PeerPop(v) ==
    /\ mode = "find_task"
    /\ out.st \in {"pop", "scan"}
    /\ data.deque[v] # <<>>
    /\ data' = [data EXCEPT !.deque[v] = PopRest(@)]
    /\ UNCHANGED <<mode, out, engine>>

NextFindTask == FindTaskPop \/ FindTaskScan \/ \E v \in {1, 2} : PeerPop(v)

SpecFindTask == InitFindTask /\ [][NextFindTask]_vars

(***************************************************************************)
(* assign as a function: data holds the two environments and the solver,   *)
(* out the call that was made, the state before it and its result.         *)
(***************************************************************************)
\* what a slot holds before the call
AssignVals ==
    {VUninitialized(TyBool), VUninitialized(TyString), VUninitialized(TyStruct("S")),
     VStruct([a |-> VI64(1), b |-> VI64(2)]), VI64(3)}

\* the locations assigned to: identifiers that are local, global, missing,
\* RETURN and an enumeration member; their fields a and z; a field of a
\* field; and a location that is neither
AssignLocs ==
    LET Ids == {LocId(x) : x \in {"p", "g", "q", "RETURN", "E0"}}
    IN  Ids \cup {LocField(l, f) : l \in Ids, f \in {"a", "z"}}
            \cup {LocField(LocField(LocId("p"), "a"), "a"), [l |-> "Addr"]}

InitAssign ==
    /\ mode = "assign"
    /\ \E L \in SUBSET {"p", "RETURN"}, G \in SUBSET {"p", "g"} :
          \E vs \in [L -> AssignVals], gs \in [G -> AssignVals] :
              data = [vars |-> vs, globals |-> gs, solver |-> NewSolver]
    /\ out = <<>>
    /\ EngineOff

\* One call of assign(loc, v, vars, globals, shared_state, solver).
Assign(loc, v) ==
    /\ mode = "assign"
    /\ out = <<>>
    /\ LET Apply(r) ==
            /\ out' = [loc |-> loc, v |-> v, before |-> data, r |-> r]
            /\ data' = [vars |-> r.vars, globals |-> r.globals, solver |-> r.solver]
       IN  Apply(assign(loc, v, data.vars, data.globals, data.solver))
    /\ UNCHANGED <<mode, engine>>

NextAssign == \E loc \in AssignLocs, v \in {VI64(7), VBool(TRUE)} : Assign(loc, v)

SpecAssign == InitAssign /\ [][NextAssign]_vars

(***************************************************************************)
(* accessor.rs: the extension accessors.  A bitvector B is the sequence of *)
(* its bits, bit 0 first (bv.to_vec()); an S-expression is written as its   *)
(* content, not as its index in the arena.  data holds the view of an       *)
(* event and the types of the symbols, out the view as the accessors        *)
(* applied so far have left it.                                             *)
(***************************************************************************)
\* The widest bitvector a B64 holds.
MAX_WIDTH == 64

\* B::zero_extend and B::sign_extend, from the bitvector library: the bits
\* above the old length are zero, or copies of the old top bit.
zero_extend(bv, n) == [k \in 1..n |-> IF k <= Len(bv) THEN bv[k] ELSE 0]
sign_extend(bv, n) ==
    [k \in 1..n |-> IF k <= Len(bv) THEN bv[k] ELSE IF Len(bv) > 0 THEN bv[Len(bv)] ELSE 0]

SexpBits(bv) == [sexp |-> "Bits", bits |-> bv]
SexpSymbolic(v) == [sexp |-> "Symbolic", v |-> v]
SexpInt(i) == [sexp |-> "Int", i |-> i]
SexpAtom(a) == [sexp |-> "Atom", a |-> a]
SexpList(xs) == [sexp |-> "List", xs |-> xs]

ViewVal(val) == [v |-> "Val", val |-> val]
ViewBits(bv) == [v |-> "Bits", bv |-> bv]
ViewSexp(sexp) == [v |-> "Sexp", sexp |-> sexp]

EvReadMem(address, data_, value) ==
    [view |-> "ReadMem", address |-> address, data |-> data_, value |-> value]
EvWriteMem(address, data_, value) ==
    [view |-> "WriteMem", address |-> address, data |-> data_, value |-> value]
EvAbstract(name, values, return_value) ==
    [view |-> "Abstract", name |-> name, values |-> values, return_value |-> return_value]
EvOther(value) == [view |-> "Other", value |-> value]
EvDefault == [view |-> "Default"]

None == [some |-> FALSE]
Some(x) == [some |-> TRUE, x |-> x]

\* View::to_sexp
to_sexp(view) ==
    CASE view.v = "Sexp" -> Some(view.sexp)
      [] view.v = "Bits" -> Some(SexpBits(view.bv))
      [] OTHER ->
            CASE view.val.tag = "Bool" -> Some(SexpAtom(IF view.val.b THEN "true" ELSE "false"))
              [] view.val.tag = "Bits" -> Some(SexpBits(view.val.bits))
              [] view.val.tag = "Symbolic" -> Some(SexpSymbolic(view.val.v))
              [] OTHER -> None

\* EventView::view
view_of(self) ==
    CASE self.view \in {"ReadMem", "WriteMem"} -> Some(ViewVal(self.value))
      [] self.view = "Abstract" ->
            IF Len(self.values) = 1 THEN Some(ViewVal(self.values[1])) ELSE None
      [] self.view = "Other" -> Some(self.value)
      [] OTHER -> None

\* EventView::other
other(self) ==
    CASE self.view \in {"ReadMem", "WriteMem"} -> EvOther(ViewVal(self.value))
      [] self.view = "Abstract" ->
            IF Len(self.values) = 1 THEN EvOther(ViewVal(self.values[1])) ELSE self
      [] OTHER -> self

\* EventView::other_sexp_or_bits: the view as it is left, and the length it
\* returns.
other_sexp_or_bits(self, types) ==
    LET Match(o) ==
            IF o.view # "Other" THEN [self |-> o, len |-> None]
            ELSE IF o.value.v = "Val" /\ o.value.val.tag = "Symbolic"
            THEN IF o.value.val.v \in DOMAIN types /\ types[o.value.val.v].s = "BitVec"
                 THEN [self |-> EvOther(ViewSexp(SexpSymbolic(o.value.val.v))),
                       len |-> Some(types[o.value.val.v].w)]
                 ELSE [self |-> o, len |-> None]
            ELSE IF o.value.v = "Val" /\ o.value.val.tag = "Bits"
            THEN [self |-> EvOther(ViewBits(o.value.val.bits)), len |-> Some(Len(o.value.val.bits))]
            ELSE IF o.value.v = "Bits"
            THEN [self |-> o, len |-> Some(Len(o.value.bv))]
            ELSE [self |-> o, len |-> None]
    IN  Match(other(self))

\* A mutation of access_extension: the term extends by the target width.
access_extension_ByTarget(self, n, types, smt_extension) ==
    LET Extend(by) == SexpList(<<SexpAtom("_"), SexpAtom(smt_extension), SexpInt(by)>>)
        Concrete(bv) == IF smt_extension = "zero_extend" THEN zero_extend(bv, n)
                        ELSE sign_extend(bv, n)
        Access(r) ==
            IF ~r.len.some THEN EvDefault
            ELSE IF n = r.len.x THEN r.self
            ELSE IF n < r.len.x THEN EvDefault
            ELSE IF r.self.view # "Other" THEN EvDefault
            ELSE CASE r.self.value.v = "Sexp" ->
                        EvOther(ViewSexp(SexpList(<<Extend(n), r.self.value.sexp>>)))
                   [] r.self.value.v = "Bits" ->
                        IF n > MAX_WIDTH
                        THEN EvOther(ViewSexp(SexpList(<<Extend(n), SexpBits(r.self.value.bv)>>)))
                        ELSE EvOther(ViewBits(Concrete(r.self.value.bv)))
                   [] OTHER -> EvDefault
    IN  Access(other_sexp_or_bits(self, types))

\* access_extension!: the function the macro defines for an SMT extension and
\* the concrete extension that goes with it.
access_extension(self, n, types, smt_extension) ==
    LET Extend(by) == SexpList(<<SexpAtom("_"), SexpAtom(smt_extension), SexpInt(by)>>)
        Concrete(bv) == IF smt_extension = "zero_extend" THEN zero_extend(bv, n)
                        ELSE sign_extend(bv, n)
        Access(r) ==
            IF ~r.len.some THEN EvDefault
            ELSE IF n = r.len.x THEN r.self
            ELSE IF n < r.len.x THEN EvDefault
            ELSE IF r.self.view # "Other" THEN EvDefault
            ELSE CASE r.self.value.v = "Sexp" ->
                        EvOther(ViewSexp(SexpList(<<Extend(n - r.len.x), r.self.value.sexp>>)))
                   [] r.self.value.v = "Bits" ->
                        IF n > MAX_WIDTH
                        THEN EvOther(ViewSexp(SexpList(<<Extend(n - r.len.x),
                                                         SexpBits(r.self.value.bv)>>)))
                        ELSE EvOther(ViewBits(Concrete(r.self.value.bv)))
                   [] OTHER -> EvDefault
    IN  Access(other_sexp_or_bits(self, types))

access_extz(self, n, types) == access_extension(self, n, types, "zero_extend")
access_exts(self, n, types) == access_extension(self, n, types, "sign_extend")

\* The longest chain of extension accessors that is followed.
MaxAccess == 2

\* Bitvectors of 0, 1, 3, 8, 63 and 64 bits, with the top bit set and clear.
BitPool == {
    <<>>, <<1>>, <<0>>, <<1, 0, 1>>, <<1, 1, 0>>,
    [k \in 1..8 |-> IF k \in {2, 8} THEN 1 ELSE 0],
    [k \in 1..63 |-> IF k \in {1, 63} THEN 1 ELSE 0],
    [k \in 1..64 |-> IF k \in {1, 64} THEN 1 ELSE 0],
    [k \in 1..64 |-> IF k = 5 THEN 1 ELSE 0] }

\* types: v0 is an 8-bit and v3 a 64-bit vector, v1 a boolean; v2 has no type.
AccessTypes == (0 :> SortBitVec(8)) @@ (1 :> SortBool) @@ (3 :> SortBitVec(64))

\* The views the events give: register values that are bitvectors, symbols
\* and other values, memory events, abstract events with one and two values,
\* and the view of an event without a base event.
ViewPool ==
    {EvOther(ViewVal(VBits(Len(b), b))) : b \in BitPool}
        \cup {EvOther(ViewVal(VSymbolic(v))) : v \in 0..3}
        \cup {EvOther(ViewVal(VBool(TRUE))), EvOther(ViewVal(VI64(5))),
              EvOther(ViewVal(VStruct([a |-> VBits(1, <<1>>)]))),
              EvReadMem(VBits(1, <<1>>), VSymbolic(3), VBits(3, <<1, 0, 1>>)),
              EvWriteMem(VBits(1, <<1>>), VBits(1, <<0>>), VSymbolic(0)),
              EvAbstract("a", <<VBits(3, <<1, 1, 0>>)>>, VUnit),
              EvAbstract("a", <<VBits(1, <<1>>), VBits(1, <<1>>)>>, VUnit),
              EvDefault}

\* The target widths of the accessors.
Targets == {0, 1, 3, 4, 8, 9, 16, 63, 64, 65, 128}

InitAccessor ==
    /\ mode = "accessor"
    /\ \E v \in ViewPool : data = [view |-> v, types |-> AccessTypes]
    /\ out = [view |-> data.view, steps |-> 0, last |-> <<>>]
    /\ EngineOff

\* Accessor::Extz(n) or Accessor::Exts(n) at a node of the accessor tree.
AccessExtension(acc, n) ==
    /\ mode = "accessor"
    /\ out.steps < MaxAccess
    /\ out' = [view |-> IF acc = "extz" THEN access_extz(out.view, n, data.types)
                        ELSE access_exts(out.view, n, data.types),
               steps |-> out.steps + 1,
               last |-> <<[acc |-> acc, n |-> n, before |-> out.view]>>]
    /\ UNCHANGED <<mode, data, engine>>

NextAccessor == \E acc \in {"extz", "exts"}, n \in Targets : AccessExtension(acc, n)

SpecAccessor == InitAccessor /\ [][NextAccessor]_vars

(***************************************************************************)
(* start_single as a function: the aggregate a depth-first run of the      *)
(* Tasks on one LIFO queue produces.                                       *)
(***************************************************************************)
RECURSIVE RunPath(_, _, _)
\* run: the loop of Step up to the result of the path; acc is what it pushed.
RunPath(frame, solver, acc) ==
    LET OnStep(r) ==
            IF r.st = "cont" THEN RunPath(r.frame, r.solver, acc \o r.push)
            ELSE [res |-> r, pushes |-> acc]
    IN  OnStep(Step(frame, solver))

RECURSIVE Explore(_, _)
Explore(queue, b) ==
    IF queue = <<>> THEN b
    ELSE LET t == PopTask(queue)
             p == RunPath(unfreeze_frame(t.frame), FromCheckpoint(t.checkpoint), <<>>)
         IN  IF p.res.st = "panic" THEN b
             ELSE Explore(Push(PopRest(queue), p.pushes),
                          all_unsat_collector(p.res, p.res.solver, b))

(***************************************************************************)
(* Properties.                                                             *)
(***************************************************************************)
\* start_single has returned, or every worker of start_multi has exited.
Terminated ==
    \/ mode = "single" /\ wpc[0] = "returned"
    \/ mode = "multi" /\ \A w \in Workers : wpc[w] = "exited"

\* Some run hit a fatal programmer error (a panic).
Panicked == \E w \in Workers : wpc[w] = "panicked"

Count(q, t) == Cardinality({k \in 1..Len(q) : q[k] = t})

\* The number of places a Task is in: the injector, a deque, a worker's hand,
\* a running path, or the collector's log.
Places(t) ==
    LET inDeque(w) == Count(deque[w], t)
        inHand(w) == Count(held[w], t)
        inRun(w) == IF cur[w] # <<>> /\ cur[w][1].task = t THEN 1 ELSE 0
        RECURSIVE Sum(_, _)
        Sum(f(_), n) == IF n < 0 THEN 0 ELSE f(n) + Sum(f, n - 1)
    IN  Count(injector, t) + Sum(inDeque, nthreads - 1) + Sum(inHand, nthreads - 1)
        + Sum(inRun, nthreads - 1) + Cardinality({r \in log : r.task = t})

\* Every Task created so far (the initial one and every Task pushed by a fork)
\* is in exactly one place - queued, held by one worker, running on one worker
\* or collected once; every collector call is for a different Task; and when
\* the engine has finished the collector has been called 1 + (number of
\* forks) times, once per Task.  Runs that panic on a fatal programmer error
\* deliver nothing for the panicking path and are left out.
TasksConserved ==
    ~Panicked =>
        /\ \A t \in pushed : Places(t) = 1
        /\ Cardinality(pushed) = 1 + nforks
        /\ ncalls = Cardinality(log)
        /\ ncalls = Cardinality({r.task : r \in log})
        /\ Terminated => ncalls = 1 + nforks /\ {r.task : r \in log} = pushed

\* Worker w holds a Task it can never start: it is at thread_tx.send(Busy),
\* the channel is full and the orchestrator has stopped receiving.
Stranded(w) ==
    /\ opc = "done"
    /\ wpc[w] = "busy" /\ held[w] # <<>>
    /\ Len(chan) = Capacity

\* C1: in start_single and start_multi every Task - the initial one and every
\* Task pushed by a fork - is executed by exactly one worker and the
\* collector is called exactly once for it: no Task is run twice and none is
\* dropped, so the number of collector calls is 1 + the number of forks.
C1_EveryTaskCollectedOnce ==
    /\ TasksConserved
    /\ \A w \in Workers : ~Stranded(w)

\* C2: start_multi terminates; in particular no worker stays blocked for ever
\* on a send to the bounded Activity channel.  Once the orchestrator has left
\* its loop nothing is received from the channel any more, so a worker that
\* is at a send while the channel is full is blocked for ever: the claim
\* says no such state is reachable.
C2_NoWorkerBlockedForever ==
    ~(/\ opc = "done"
      /\ Len(chan) = Capacity
      /\ \E w \in Workers : wpc[w] \in {"busy", "idle"})

\* C3: when start_multi has terminated (every worker has exited on Kill), no
\* Task remains in any worker's deque or in the injector.
C3_QuiescenceSound ==
    (mode = "multi" /\ \A w \in Workers : wpc[w] = "exited") =>
        /\ injector = <<>>
        /\ \A w \in Workers : deque[w] = <<>>

C3_Witness ==
    /\ mode = "multi" /\ nthreads = 2
    /\ \A w \in Workers : wpc[w] = "exited"
    /\ nforks = 1
    /\ chan # <<>>

\* At the moment of the Kill broadcast every worker is blocked on
\* poke_rx.recv() with no Poke pending, holds and runs no Task, and the
\* deques and the injector are empty.
QuietNow ==
    /\ \A w \in Workers : wpc[w] = "recv" /\ poke[w] = <<>> /\ held[w] = <<>> /\ cur[w] = <<>>
    /\ \A w \in Workers : deque[w] = <<>>
    /\ injector = <<>>

\* C4: quiescence is genuine when declared: the step in which the
\* orchestrator finds every counter >= 2 and broadcasts Kill is taken in a
\* quiet state, and after the broadcast no Task is started and the collector
\* is not called.
C4_QuiescenceGenuine ==
    [][/\ (opc = "round" /\ opc' = "done") => QuietNow
       /\ opc = "done" => /\ ncalls' = ncalls
                          /\ \A w \in Workers : wpc'[w] = "run" => wpc[w] = "run"]_vars

\* C5: the final value of the shared aggregate is the same for every worker
\* count, for start_single and start_multi and for every interleaving: when
\* the engine has finished, the aggregate is the one the depth-first run of
\* the same initial Task on a single queue produces.
C5_AggregateOrderIndependent ==
    Terminated => collected = Explore(<<Entries[entry]>>, TRUE)

C5_Witness ==
    /\ Terminated /\ mode = "multi" /\ nthreads = 2
    /\ Cardinality({r \in log : r.st = "ok" /\ r.val = VBool(TRUE)}) = 1
    /\ Cardinality({r \in log : r.st = "ok" /\ r.val = VBool(FALSE)}) = 1
    /\ collected = FALSE

(***************************************************************************)
(* Instr::Jump, seen from the engine: the step of a worker whose running   *)
(* path is at a Jump.                                                      *)
(***************************************************************************)
CurFrame(w) == cur[w][1].frame
CurSolver(w) == cur[w][1].solver
CurInstr(w) == Code[CurFrame(w).instrs][CurFrame(w).pc + 1]

AtJump(w) ==
    /\ wpc[w] = "run"
    /\ CurFrame(w).pc < Len(Code[CurFrame(w).instrs])
    /\ CurInstr(w).i = "Jump"

\* The worker takes a step.
Acted(w) == cur'[w] # cur[w] \/ wpc'[w] # wpc[w]

\* The evaluation of the condition of the Jump.
CondOf(w) == eval_exp(CurInstr(w).e, CurFrame(w).vars, CurFrame(w).globals, CurSolver(w))

\* The frame after the evaluation of the condition, at the given pc.
FrameAt(w, pc) ==
    [CurFrame(w) EXCEPT !.vars = CondOf(w).vars, !.globals = CondOf(w).globals, !.pc = pc]

NoPush == deque' = deque /\ injector' = injector /\ pushed' = pushed /\ nforks' = nforks

\* C6: true fork.  When the condition of a Jump evaluates to Symbolic(v) and
\* both v and not-v are satisfiable, exactly one Task is pushed, on the deque
\* of the worker running the path; it is the false arm (the frame frozen at
\* pc + 1, the checkpoint the current trace plus Assert(not v)); the live path
\* continues as the true arm (pc = target, Assert(v) added to its solver).
C6_TrueFork ==
    [][\A w \in Workers :
         (/\ AtJump(w) /\ Acted(w)
          /\ CondOf(w).st = "ok"
          /\ CondOf(w).val.tag = "Symbolic"
          /\ CheckSatWith(CondOf(w).solver, SmtVar(CondOf(w).val.v))
          /\ CheckSatWith(CondOf(w).solver, SmtNot(SmtVar(CondOf(w).val.v))))
         => LET c == CondOf(w)
                not_v == AssertDef(SmtNot(SmtVar(c.val.v)))
                is_v == AssertDef(SmtVar(c.val.v))
                falseArm == Task(FrameAt(w, CurFrame(w).pc + 1),
                                 [next |-> c.solver.next, trace |-> Append(c.solver.trace, not_v)])
            IN  /\ deque' = [deque EXCEPT ![w] = Append(@, falseArm)]
                /\ injector' = injector /\ held' = held
                /\ nforks' = nforks + 1
                /\ pushed' = pushed \cup {falseArm}
                /\ wpc'[w] = "run"
                /\ cur'[w][1].frame = FrameAt(w, CurInstr(w).t)
                /\ cur'[w][1].solver = [next |-> c.solver.next, trace |-> Append(c.solver.trace, is_v)]
      ]_vars

\* A worker has just forked at the Jump of fork1: its path is at the target
\* with v asserted last, and the top of its deque is the Task at pc + 1 with
\* not-v asserted last.
C6_Witness ==
    \E w \in Workers :
        /\ wpc[w] = "run" /\ deque[w] # <<>>
        /\ CurFrame(w).instrs = "fork1" /\ CurFrame(w).pc = 4
        /\ CurSolver(w).trace[Len(CurSolver(w).trace)] = AssertDef(SmtVar(0))
        /\ LET t == PopTask(deque[w])
           IN  /\ t.frame.pc = 2
               /\ t.checkpoint.trace[Len(t.checkpoint.trace)] = AssertDef(SmtNot(SmtVar(0)))

\* C7: single-arm Jump.  When the condition is Symbolic(v) and exactly one of
\* v / not-v is satisfiable no Task is pushed; if only v is satisfiable the
\* solver gets Assert(v) and pc = target, if only not-v is satisfiable it gets
\* Assert(not v) and pc = pc + 1.  For a concrete Bool(b) the solver is left
\* as it is and pc = target if b, else pc + 1.
C7_SingleArmJump ==
    [][\A w \in Workers :
         (AtJump(w) /\ Acted(w) /\ CondOf(w).st = "ok")
         => LET c == CondOf(w)
                sym == c.val.tag = "Symbolic"
                can_t == CheckSatWith(c.solver, SmtVar(c.val.v))
                can_f == CheckSatWith(c.solver, SmtNot(SmtVar(c.val.v)))
                goes(pc, solver) ==
                    /\ NoPush
                    /\ wpc'[w] = "run"
                    /\ cur'[w][1].frame = FrameAt(w, pc)
                    /\ cur'[w][1].solver = solver
            IN  /\ (sym /\ can_t /\ ~can_f) =>
                      goes(CurInstr(w).t, Add(c.solver, AssertDef(SmtVar(c.val.v))))
                /\ (sym /\ ~can_t /\ can_f) =>
                      goes(CurFrame(w).pc + 1, Add(c.solver, AssertDef(SmtNot(SmtVar(c.val.v)))))
                /\ (c.val.tag = "Bool") =>
                      goes(IF c.val.b THEN CurInstr(w).t ELSE CurFrame(w).pc + 1, c.solver)
      ]_vars

\* A path started with not-v0 asserted has taken the Jump on v0: nothing was
\* pushed, it fell through to pc + 1 and not-v0 has been asserted again.
C7_Witness ==
    \E w \in Workers :
        /\ wpc[w] = "run" /\ nforks = 0
        /\ CurFrame(w).instrs = "reg" /\ CurFrame(w).pc = 1
        /\ CurSolver(w).trace =
              CheckpointB(<<AssertDef(SmtNot(SmtVar(0)))>>).trace \o <<AssertDef(SmtNot(SmtVar(0)))>>

\* C8: a Jump whose condition has evaluated raises Err(Dead) exactly when the
\* condition is Symbolic(v) and neither v nor not-v is satisfiable, and
\* Err(Type) exactly when the value is neither Bool nor Symbolic.  In both
\* cases the path ends with that error delivered to the collector, no Task
\* is pushed and nothing is added to the solver.
C8_JumpErrors ==
    [][\A w \in Workers :
         (AtJump(w) /\ Acted(w) /\ CondOf(w).st = "ok")
         => LET c == CondOf(w)
                dead == /\ c.val.tag = "Symbolic"
                        /\ ~CheckSatWith(c.solver, SmtVar(c.val.v))
                        /\ ~CheckSatWith(c.solver, SmtNot(SmtVar(c.val.v)))
                type == c.val.tag \notin {"Bool", "Symbolic"}
                ends(e) ==
                    /\ NoPush
                    /\ wpc'[w] # "run"
                    /\ ncalls' = ncalls + 1
                    /\ log' = log \cup {[task |-> cur[w][1].task, st |-> "err", val |-> VUnit,
                                         err |-> e, trace |-> c.solver.trace]}
            IN  /\ dead => ends("Dead")
                /\ type => ends("Type")
                /\ (~dead /\ ~type) => (wpc'[w] = "run" /\ log' = log /\ ncalls' = ncalls)
      ]_vars

\* A path whose checkpoint asserts both v0 and not-v0 has ended with Dead at
\* its Jump, with the trace of the checkpoint unchanged.
C8_Witness ==
    \E r \in log :
        /\ r.st = "err" /\ r.err = "Dead"
        /\ r.trace = r.task.checkpoint.trace
        /\ nforks = 0 /\ ncalls = 1

\* The initial Task of scenario S2: v0 = 0x0 is asserted and the condition of
\* the Jump is the symbolic boolean v1 defined as v0 != 0x0.
IsS2 == Entries[entry].checkpoint = CheckpointNeq

\* C9 as stated: in S2 the true arm raises Dead and the false arm completes,
\* so the collector is called exactly twice, once with Ok and once with
\* Err(Dead).
C9_S2OneOkOneDead ==
    (IsS2 /\ Terminated) =>
        /\ ncalls = 2
        /\ Cardinality({r \in log : r.st = "ok"}) = 1
        /\ Cardinality({r \in log : r.st = "err" /\ r.err = "Dead"}) = 1

\* C9 amended: in S2 the true arm is infeasible and is never run: the Jump
\* pushes no Task and raises no Dead, it asserts the negated condition and
\* falls through; the collector is called exactly once, with an Ok result.
C9_S2OnlyFalseArm ==
    IsS2 =>
        /\ nforks = 0 /\ pushed = {Entries[entry]}
        /\ \A r \in log :
              /\ r.st = "ok"
              /\ r.trace = Append(CheckpointNeq.trace, AssertDef(SmtNot(SmtVar(1))))
        /\ Terminated => ncalls = 1 /\ Cardinality(log) = 1

C9_Witness ==
    /\ IsS2 /\ Terminated /\ mode = "multi" /\ nthreads = 2
    /\ \E r \in log : r.st = "ok" /\ r.val = VUnit

\* The initial Task of scenario S1.
IsS1 == Entries[entry].frame.instrs = "s1"

\* C10 as stated: for S1 the engine completes exactly two paths, both
\* delivered to the collector as successfully completed, one with v0 asserted
\* and one with not-v0 asserted.
C10_S1TwoOkPaths ==
    IsS1 =>
        /\ ~Panicked
        /\ Terminated =>
              /\ ncalls = 2
              /\ \A r \in log : r.st = "ok"
              /\ \E r \in log : r.trace[Len(r.trace)] = AssertDef(SmtVar(0))
              /\ \E r \in log : r.trace[Len(r.trace)] = AssertDef(SmtNot(SmtVar(0)))

\* C10 amended: for S1 the Jump forks once, into a path whose solver has v0
\* asserted and a Task whose checkpoint has not-v0 asserted, but no path is
\* delivered to the collector: every path that is run reaches End at pc 3
\* with RETURN unassigned, where run panics, and the engine does not finish.
C10_S1PanicsAtEnd ==
    IsS1 =>
        /\ ncalls = 0 /\ log = {} /\ ~Terminated
        /\ nforks <= 1
        /\ \A t \in pushed \ {Entries[entry]} :
              /\ t.frame.pc = 2
              /\ t.checkpoint.trace = <<DeclareConst(0, SortBool), AssertDef(SmtNot(SmtVar(0)))>>
        /\ \A w \in Workers :
              wpc[w] = "panicked" =>
                  /\ CurFrame(w).pc = 3
                  /\ "RETURN" \notin DOMAIN CurFrame(w).vars
                  /\ \/ CurSolver(w).trace = <<DeclareConst(0, SortBool), AssertDef(SmtVar(0))>>
                     \/ CurSolver(w).trace = <<DeclareConst(0, SortBool), AssertDef(SmtNot(SmtVar(0)))>>

\* Both arms of S1 have been run, by two workers, and both have panicked.
C10_Witness ==
    /\ IsS1 /\ mode = "multi" /\ nthreads = 2
    /\ \A w \in Workers : wpc[w] = "panicked"
    /\ CurSolver(0).trace # CurSolver(1).trace

(***************************************************************************)
(* Calls and returns, followed one path at a time (SpecPaths).             *)
(***************************************************************************)
IsProgram(name) == PathEntries[entry].frame.instrs = name

\* The path is at an instruction of the given kind.
AtInstr(w, kind) ==
    /\ wpc[w] = "run"
    /\ CurFrame(w).pc < Len(Code[CurFrame(w).instrs])
    /\ CurInstr(w).i = kind

\* C11: call/return discipline.  A Call of a function evaluates the
\* arguments, captures the caller (pc, locals after argument evaluation,
\* instrs, stack, loc) on top of the stack and enters the callee at pc 0 with
\* the parameters as its only locals.  When the callee reaches End with a
\* non-empty stack, the frame afterwards has pc = call_pc + 1, the caller's
\* instrs, the caller's previous stack, the caller's locals as captured
\* changed only by assign(loc, ret), and the globals as left by the callee
\* changed only by assign(loc, ret) when loc is a global; no other step
\* touches the stack, so nested calls return last-in first-out.  The program
\* y = f_not(true) ends with Bool(false) and declares no solver constant.
C11_CallReturn ==
    /\ [][
            LET \* at End in a callee: RETURN is assigned and the stack is not empty
                AtReturn(w) ==
                    /\ AtInstr(w, "End")
                    /\ "RETURN" \in DOMAIN CurFrame(w).vars
                    /\ CurFrame(w).stack # <<>>
                \* at a Call of a function of shared_state.functions
                AtCall(w) == AtInstr(w, "Call") /\ CurInstr(w).f \in DOMAIN Functions
                \* the evaluation of the arguments of the Call
                ArgsOf(w) ==
                    EvalArgs(CurInstr(w).args, 1, CurFrame(w).vars, CurFrame(w).globals,
                             CurSolver(w), <<>>)
            IN  \A w \in Workers :
                    /\ (AtReturn(w) /\ Acted(w)) =>
                          LET fr == CurFrame(w)
                              caller == Head(fr.stack)
                              ret == fr.vars["RETURN"]
                              id == caller.loc.id
                              local == id \in DOMAIN caller.vars \/ id = "RETURN"
                              after == cur'[w][1].frame
                          IN  /\ caller.loc.l = "Id"
                              /\ wpc'[w] = "run"
                              /\ after.pc = caller.pc + 1
                              /\ after.instrs = caller.instrs
                              /\ after.stack = Tail(fr.stack)
                              /\ after.vars = IF local THEN Insert(caller.vars, id, ret) ELSE caller.vars
                              /\ after.globals = IF local THEN fr.globals ELSE Insert(fr.globals, id, ret)
                              /\ cur'[w][1].solver = CurSolver(w)
                              /\ NoPush
                    /\ (AtCall(w) /\ Acted(w) /\ ArgsOf(w).st = "ok") =>
                          LET fr == CurFrame(w)
                              fn == Functions[CurInstr(w).f]
                              after == cur'[w][1].frame
                          IN  /\ wpc'[w] = "run"
                              /\ after.pc = 0
                              /\ after.instrs = fn.instrs
                              /\ after.stack = <<[pc |-> fr.pc, vars |-> ArgsOf(w).vars,
                                                  instrs |-> fr.instrs, loc |-> CurInstr(w).loc]>>
                                               \o fr.stack
                              /\ DOMAIN after.vars = {fn.params[k][1] : k \in 1..Len(CurInstr(w).args)}
                              /\ \A k \in 1..Len(CurInstr(w).args) :
                                    after.vars[fn.params[k][1]] = ArgsOf(w).val[k]
                              /\ after.globals = ArgsOf(w).globals
                              /\ NoPush
                    /\ (wpc[w] = "run" /\ wpc'[w] = "run" /\ ~AtReturn(w) /\ ~AtCall(w)) =>
                          cur'[w][1].frame.stack = CurFrame(w).stack
       ]_vars
    /\ [](IsProgram("s3") =>
            /\ \A w \in Workers : cur[w] # <<>> => CurSolver(w).trace = <<>>
            /\ Terminated =>
                  log = {[task |-> PathEntries[entry], st |-> "ok", val |-> VBool(FALSE),
                          err |-> "none", trace |-> <<>>]})

\* Both returns of the nested call have been made, innermost first: the path
\* is back in the outermost caller behind its Call, with its local as
\* materialised by the argument evaluation and both registers written.
C11_Witness ==
    /\ IsProgram("nest")
    /\ wpc[0] = "run"
    /\ CurFrame(0).instrs = "nest" /\ CurFrame(0).pc = 2 /\ CurFrame(0).stack = <<>>
    /\ CurFrame(0).vars = [a |-> VSymbolic(0)]
    /\ CurFrame(0).globals = [HAVE_EXCEPTION |-> VBool(FALSE), G |-> VSymbolic(1), R |-> VSymbolic(1)]

\* The number of constants declared in a solver trace.
NumDeclared(trace) == Cardinality({k \in 1..Len(trace) : trace[k].def = "DeclareConst"})

\* C12 as stated: the program Decl(s, Struct{a, b}); Copy(s.a, 3);
\* Copy(s.b, 4); End with s.a ends Ok(I64(3)) and exactly one fresh symbolic
\* constant is declared over the whole run.
C12_S4OneConstant ==
    (IsProgram("s4") /\ Terminated) =>
        /\ ncalls = 1
        /\ \A r \in log : r.st = "ok" /\ r.val = VI64(3) /\ NumDeclared(r.trace) = 1

\* C12 amended: the program ends Ok(I64(3)) and exactly two fresh symbolic
\* constants are declared over the whole run, one for each field of s: the
\* first field assignment initialises the whole struct, before the field is
\* overwritten, and nothing is declared afterwards.
C12_S4TwoConstants ==
    IsProgram("s4") =>
        /\ \A w \in Workers :
              wpc[w] = "run" =>
                  CurSolver(w).trace =
                      IF CurFrame(w).pc <= 1 THEN <<>>
                      ELSE <<DeclareConst(0, SortBitVec(64)), DeclareConst(1, SortBitVec(64))>>
        /\ Terminated =>
              /\ ncalls = 1
              /\ \A r \in log : /\ r.st = "ok" /\ r.val = VI64(3)
                                 /\ NumDeclared(r.trace) = 2

\* The run of the struct program has been collected.
C12_Witness == IsProgram("s4") /\ Terminated /\ ncalls = 1

(***************************************************************************)
(* Lazy initialisation (SpecLookup).                                       *)
(***************************************************************************)
\* C13: get_and_initialize is idempotent.  A lookup of a missing key returns
\* None and changes neither the environment nor the solver.  The first
\* lookup of a slot holding Uninitialized(ty) materialises symbolic(ty),
\* writes it back into the same slot and returns it.  Every later lookup of a
\* slot that a lookup has returned returns the identical value and leaves
\* the environment and the solver as they are: no further constant is
\* declared.
C13_LookupIdempotent ==
    \A k \in 1..Len(out) :
        LET c == out[k]
            env == c.before.vars
        IN  /\ c.v \notin DOMAIN env =>
                  c.st = "ok" /\ ~c.found /\ c.after = c.before
            /\ (c.v \in DOMAIN env /\ env[c.v].tag = "Uninitialized" /\ c.st = "ok") =>
                  /\ c.found
                  /\ c.val = symbolic(env[c.v].ty, c.before.solver).val
                  /\ c.val.tag # "Uninitialized"
                  /\ c.after.vars = Insert(env, c.v, c.val)
                  /\ c.after.solver = symbolic(env[c.v].ty, c.before.solver).solver
            /\ \A j \in 1..(k - 1) :
                  (out[j].v = c.v /\ out[j].st = "ok" /\ out[j].found) =>
                      /\ c.st = "ok" /\ c.found
                      /\ c.val = out[j].val
                      /\ c.after = c.before

\* The slot p, uninitialised, is looked up, then another uninitialised slot,
\* then p again: the lookups of p return the same symbolic value and the
\* solver has one constant for each slot.
C13_Witness ==
    /\ Len(out) = 3
    /\ out[1].v = "p" /\ out[2].v = "q" /\ out[3].v = "p"
    /\ out[1].before.vars = [p |-> VUninitialized(TyBool), q |-> VUninitialized(TyI64)]
    /\ out[1].val = VSymbolic(0) /\ out[2].val = VSymbolic(1) /\ out[3].val = VSymbolic(0)
    /\ NumDeclared(data.solver.trace) = 2

\* C14: backward-jump budget.  The backjumps counter of the frame counts the
\* backward jumps of the path (Goto or Jump to a target <= pc) and the path
\* is terminated when it reaches MAX_BACKJUMPS: no path makes more than
\* MAX_BACKJUMPS backward jumps, so run terminates on an unconditional loop.
C14_BackjumpBudget ==
    \A w \in Workers :
        cur[w] # <<>> =>
            /\ CurFrame(w).backjumps = cur[w][1].back
            /\ cur[w][1].back <= MAX_BACKJUMPS

(***************************************************************************)
(* Solver isolation (Spec: every interleaving of the workers).             *)
(***************************************************************************)
\* C15: solver isolation.  Each Task is run on a solver built from its own
\* Checkpoint: when a worker starts a Task its solver holds exactly the
\* trace of the checkpoint.  The checkpoint of a forked Task is exactly the
\* trace of the parent at the fork point plus Assert(not v), while the parent
\* goes on with Assert(v).  What a path adds afterwards stays in its own
\* solver: a step of one path changes the solver of no other running path
\* and the checkpoint of no Task, so the solver of every running path, and
\* the trace of every collected one, is the checkpoint of its own Task
\* extended by that path alone.
C15_SolverIsolation ==
    /\ [][\A w \in Workers :
            LET started == cur[w] = <<>> /\ cur'[w] # <<>>
                stepped == cur[w] # <<>> /\ cur'[w] # cur[w]
                forked == stepped /\ nforks' # nforks
            IN  /\ started =>
                      /\ cur'[w][1].solver = [next |-> cur'[w][1].task.checkpoint.next,
                                              trace |-> cur'[w][1].task.checkpoint.trace]
                      /\ cur'[w][1].task \in pushed
                /\ forked =>
                      LET at == CondOf(w).solver.trace
                          v == CondOf(w).val.v
                      IN  /\ AtJump(w) /\ CondOf(w).val.tag = "Symbolic"
                          /\ Len(deque'[w]) = Len(deque[w]) + 1
                          /\ PopRest(deque'[w]) = deque[w]
                          /\ PopTask(deque'[w]).checkpoint.trace
                                = Append(at, AssertDef(SmtNot(SmtVar(v))))
                          /\ cur'[w][1].solver.trace = Append(at, AssertDef(SmtVar(v)))
                          /\ pushed' = pushed \cup {PopTask(deque'[w])}
                /\ (started \/ stepped) =>
                      /\ \A o \in Workers \ {w} : cur'[o] = cur[o] /\ held'[o] = held[o]
                      /\ pushed \subseteq pushed'
                /\ (stepped /\ cur'[w] # <<>>) =>
                      /\ cur'[w][1].task = cur[w][1].task
                      /\ Len(cur'[w][1].solver.trace) >= Len(CurSolver(w).trace)
                      /\ SubSeq(cur'[w][1].solver.trace, 1, Len(CurSolver(w).trace))
                            = CurSolver(w).trace
        ]_vars
    /\ [](/\ \A w \in Workers :
               cur[w] # <<>> =>
                   LET cp == cur[w][1].task.checkpoint.trace
                   IN  /\ Len(cp) <= Len(CurSolver(w).trace)
                       /\ SubSeq(CurSolver(w).trace, 1, Len(cp)) = cp
           /\ \A r \in log :
                   LET rcp == r.task.checkpoint.trace
                   IN  /\ Len(rcp) <= Len(r.trace)
                       /\ SubSeq(r.trace, 1, Len(rcp)) = rcp)

\* Two workers run the two arms of one fork at the same time: the parent
\* with Assert(v) last in its solver, the forked Task with Assert(not v), and
\* neither solver holds the assertion of the other.
C15_Witness ==
    /\ mode = "multi" /\ nthreads = 2
    /\ cur[0] # <<>> /\ cur[1] # <<>>
    /\ \E a, b \in Workers :
          /\ CurSolver(a).trace = <<DeclareConst(0, SortBool), AssertDef(SmtVar(0))>>
          /\ CurSolver(b).trace = <<DeclareConst(0, SortBool), AssertDef(SmtNot(SmtVar(0)))>>
          /\ cur[b][1].task.checkpoint.trace = CurSolver(b).trace
          /\ cur[a][1].task.checkpoint.trace = <<>>

C17_AllUnsatCollector ==
    /\ [][collected' => collected]_vars
    /\ [](collected =
            ~\E r \in log :
                \/ r.st = "ok" /\ r.val = VBool(FALSE)
                \/ /\ r.st = "ok" /\ r.val.tag = "Symbolic"
                   /\ IsSat(Append(r.trace, AssertDef(SmtNot(SmtVar(r.val.v)))))
                \/ r.st = "err" /\ r.err # "Dead")

\* A path that ended Ok(Bool(false)) has been collected and then one that
\* ended Ok(Bool(true)): the boolean is false and stays false.
C17_Witness ==
    /\ IsProgram("forkft") /\ Terminated
    /\ ~collected
    /\ {<<r.task.frame.pc, r.val>> : r \in log} = {<<0, VBool(FALSE)>>, <<2, VBool(TRUE)>>}

(***************************************************************************)
(* start_single (FairPaths).                                               *)
(***************************************************************************)
\* C18: start_single explores depth-first on one LIFO deque and terminates
\* exactly when the deque drains.  A path pushes at the back of the deque
\* and leaves the Tasks already queued in place; after a path ends, the Task
\* run next is the one at the back, the most recently pushed Task not yet
\* run; with the deque empty start_single returns, and it returns only then:
\* when it has returned every pushed Task has been run and collected, once.
\* In the program with two forks on its first path, the Task of the second
\* fork is run and collected before the Task of the first.
C18_DepthFirst ==
    /\ [][
           /\ (wpc[0] = "pop" /\ wpc'[0] = "run") =>
               /\ deque[0] # <<>>
               /\ cur'[0][1].task = deque[0][Len(deque[0])]
               /\ deque'[0] = SubSeq(deque[0], 1, Len(deque[0]) - 1)
           /\ (wpc[0] = "run" /\ deque'[0] # deque[0]) =>
               /\ Len(deque'[0]) = Len(deque[0]) + 1
               /\ SubSeq(deque'[0], 1, Len(deque[0])) = deque[0]
           /\ (wpc[0] = "pop" /\ wpc'[0] = "returned") => deque[0] = <<>>
           /\ wpc[0] = "returned" => wpc'[0] = "returned"
       ]_vars
    /\ [](wpc[0] = "returned" =>
            /\ deque[0] = <<>> /\ cur[0] = <<>>
            /\ {r.task : r \in log} = pushed
            /\ ncalls = Cardinality(pushed) /\ ncalls = Cardinality(log))
    /\ [](IsProgram("fork3") =>
            LET first == <<DeclareConst(0, SortBool), AssertDef(SmtNot(SmtVar(0)))>>
                second == <<DeclareConst(0, SortBool), AssertDef(SmtVar(0)),
                            DeclareConst(1, SortBool), AssertDef(SmtNot(SmtVar(1)))>>
                done == {r.task.checkpoint.trace : r \in log}
            IN  /\ ncalls = 2 => done = {<<>>, second}
                /\ ncalls = 3 => done = {<<>>, second, first}
                /\ wpc[0] = "returned" => ncalls = 4)
    /\ ((wpc[0] = "pop" /\ deque[0] = <<>>) ~> (wpc[0] = "returned"))

\* The first path of the program with two forks has ended with two Tasks
\* queued, the Task of the second fork has been run and collected, and the
\* Task of the first fork is still in the deque.
C18_Witness ==
    /\ IsProgram("fork3")
    /\ ncalls = 2 /\ wpc[0] = "pop"
    /\ Len(deque[0]) = 1
    /\ deque[0][1].checkpoint.trace = <<DeclareConst(0, SortBool), AssertDef(SmtNot(SmtVar(0)))>>

(***************************************************************************)
(* Renumbering (SpecRenumber).                                             *)
(***************************************************************************)
\* The base trace has been renumbered with (i, total), every event.
Renumbered(i) ==
    /\ Len(out[i]) = Len(data.base)
    /\ \A k \in 1..Len(out[i]) : out[i][k].st = "ok"

\* The symbols of the events renumbered so far with (i, total).
SymbolsOut(i) == UNION {Symbols(out[i][k].event) : k \in 1..Len(out[i])}

\* C19: renumbering disjointness.  For a base trace and a total, the sets of
\* symbols that occur after renumber_event with (i, total) are pairwise
\* disjoint for distinct i in 0..total, for all symbol values of the u32
\* range; and renumber_event rejects i >= total.
C19_RenumberDisjoint ==
    /\ \A i, j \in 0..MaxTotal :
          (i # j /\ Renumbered(i) /\ Renumbered(j)) => SymbolsOut(i) \cap SymbolsOut(j) = {}
    /\ \A i \in 0..MaxTotal :
          i >= data.total => \A k \in 1..Len(out[i]) : out[i][k].st = "panic"

RECURSIVE Renamed(_, _, _)
\* The event, definition, expression or value x with every symbol v in it
\* replaced by v * total + i and everything else as it is: the symbols are
\* the field v of an event, a definition, a Var and a Symbolic, and they are
\* looked for in every field that holds a definition, an expression or a
\* value.
Renamed(x, i, total) ==
    LET inner == IF "ev" \in DOMAIN x
                 THEN {"def", "value", "read_kind", "write_kind", "address", "data"}
                 ELSE IF "def" \in DOMAIN x THEN {"e"}
                 ELSE IF "op" \in DOMAIN x THEN {"a", "b"}
                 ELSE {"val"}
        each == IF "tag" \in DOMAIN x THEN {"elems", "fields"} ELSE {}
    IN  [f \in DOMAIN x |->
            IF f = "v" THEN MulAdd(x.v, i, total).v
            ELSE IF f \in inner THEN Renamed(x[f], i, total)
            ELSE IF f \in each THEN [k \in DOMAIN x[f] |-> Renamed(x[f][k], i, total)]
            ELSE x[f]]

\* C20: renumbering is a uniform renaming.  Whenever renumber_event with
\* (i, total) returns, every occurrence of every symbol v in the event - the
\* targets of DeclareConst and DefineConst, inside expressions, inside nested
\* values (Struct, Vector, List, Ctor), in Branch and Sleeping, and in every
\* field of ReadMem, WriteMem, ReadReg, WriteReg and Instr - has become
\* v * total + i (u32 arithmetic) and nothing else has changed; the symbols
\* {0, 1, 2} become {1, 4, 7} with (1, 3), and (0, 1) is the identity.
C20_UniformRenaming ==
    /\ \A i \in 0..MaxTotal : \A k \in 1..Len(out[i]) :
          out[i][k].st = "ok" =>
              /\ out[i][k].event = Renamed(data.base[k], i, data.total)
              /\ (i = 0 /\ data.total = 1) => out[i][k].event = data.base[k]
              /\ Symbols(out[i][k].event)
                    = {MulAdd(v, i, data.total).v : v \in Symbols(data.base[k])}
    /\ (data.base = BaseTraces[1] /\ data.total = 3 /\ Renumbered(1)) =>
          SymbolsOut(1) = {<<0, 1>>, <<0, 4>>, <<0, 7>>}

\* The trace with the nested values, whose symbols are 0, 1 and 2, has been
\* renumbered with (2, 3), every event: the symbols are now 2, 5 and 8.
C20_Witness ==
    /\ mode = "renumber"
    /\ data.base = BaseTraces[2] /\ data.total = 3
    /\ Renumbered(2)
    /\ SymbolsOut(2) = {<<0, 2>>, <<0, 5>>, <<0, 8>>}
    /\ out[2][2].event.value.elems[1].val = VSymbolic(<<0, 8>>)

\* C21: remove_unused is idempotent: called on the list it returned, it
\* returns that list again, event for event.
C21_RemoveUnusedIdempotent ==
    (out.call = 2 /\ out.st = "done") => out.events = out.first

\* the second call has returned, on a list the first call had shortened
C21_Witness ==
    /\ out.call = 2
    /\ out.st = "done"
    /\ out.first # <<>>
    /\ Len(out.first) < Len(data.xs)

\* The symbols of an event that count as uses: those of the expression of a
\* definition or an assertion, of a register or instruction value, of the
\* kind, address and data of a memory event, and of a branch or a sleep.
CountedUses(event) ==
    CASE event.ev = "Smt" ->
            IF event.def.def = "DeclareConst" THEN {} ELSE Symbols(event.def.e)
      [] event.ev = "ReadMem" -> Symbols(event.read_kind) \cup Symbols(event.address)
      [] event.ev = "WriteMem" ->
            Symbols(event.write_kind) \cup Symbols(event.address) \cup Symbols(event.data)
      [] OTHER -> Symbols(event)

IsDefinition(event) ==
    event.ev = "Smt" /\ event.def.def \in {"DeclareConst", "DefineConst"}

\* C22: remove_unused returns after at most one pass per event and one more,
\* and every DeclareConst or DefineConst of the list it returns has a use of
\* its symbol counted among the events of that list.
C22_DeadSymbolFixedPoint ==
    /\ out.passes <= Len(data.xs) + 1
    /\ out.st = "done" =>
          \A k \in 1..Len(out.events) :
              IsDefinition(out.events[k]) =>
                  \E j \in 1..Len(out.events) : out.events[k].def.v \in CountedUses(out.events[j])

\* the first call has returned after three passes that removed a definition
\* each (a chain of at least three), and a definition is left
C22_Witness ==
    /\ out.call = 1
    /\ out.st = "done"
    /\ out.passes >= 4
    /\ \E k \in 1..Len(out.events) : IsDefinition(out.events[k])

\* The symbols used in the definition of s, and the sets that hold sym and
\* the symbols used by each of their members.
ImmediateUses(s) ==
    UNION {Symbols(data.xs[k].def.e) :
             k \in {j \in 1..Len(data.xs) :
                      /\ data.xs[j].ev = "Smt"
                      /\ data.xs[j].def.def = "DefineConst"
                      /\ data.xs[j].def.v = s}}

ClosedSets ==
    {T \in SUBSET {S(n) : n \in 0..3} :
        data.symbol \in T /\ \A s \in T : ImmediateUses(s) \subseteq T}

\* C23: dependencies(sym) returns the least set that holds sym and, with a
\* symbol, every symbol used in its definition; the loop ends after at most
\* one turn per symbol of the result and one more.
C23_DependenciesClosure ==
    /\ out.turns <= Cardinality(out.deps) + 1
    /\ out.st = "done" =>
          /\ out.deps \in ClosedSets
          /\ \A T \in ClosedSets : out.deps \subseteq T

\* dependencies has returned three symbols or more, through a definition
\* that uses its own symbol
C23_Witness ==
    /\ out.st = "done"
    /\ Cardinality(out.deps) >= 3
    /\ \E s \in out.deps : s \in ImmediateUses(s)
    /\ \E s \in out.deps : s # data.symbol /\ ImmediateUses(s) # {}

\* an operator of Sbits has been applied and has returned a bitvector
Returned == out # <<>> /\ out.r.st = "ok"

\* C24: every operator of Sbits, on operands of length <= 64 with
\* bits < 2^length, returns a bitvector of the length of the left operand
\* whose bits are below 2^length.
C24_WidthInvariant ==
    Returned =>
        /\ out.r.length = data.self.length
        /\ out.r.bits = BigMod2(out.r.bits, out.r.length)

\* C25: division and remainder by a zero divisor return an error value.
C25_ZeroDivisorError ==
    (out # <<>> /\ out.op \in {"div", "rem"} /\ IsZero(data.rhs.bits)) => out.r.st = "err"

\* a op b in arithmetic without a width, modulo 2^length
Reference(op, a, b, length) ==
    LET m == BigPow2(length)
    IN  Fit(CASE op = "add" -> BigMod2(BigAdd(a, b), length)
              [] op = "mul" -> BigMod2(BigMul(a, b), length)
              [] op = "sub" ->
                    IF BigLess(a, b)
                    THEN BigMod2(BigSub(m, BigMod2(BigSub(b, a), length)), length)
                    ELSE BigMod2(BigSub(a, b), length)
              [] op = "neg" -> BigMod2(BigSub(m, a), length), 8)

\* C26: add, sub, mul and neg of well-formed operands of one length return,
\* without a trap, the result of the arithmetic without a width modulo
\* 2^length.
C26_ModularArithmetic ==
    (/\ out # <<>>
     /\ out.op \in {"add", "sub", "mul", "neg"}
     /\ data.self.length = data.rhs.length) =>
        /\ out.r.st = "ok"
        /\ out.r.bits = Reference(out.op, data.self.bits, data.rhs.bits, data.self.length)

\* the number of Kill responses in the queue of pokes of w
Kills(w) == Cardinality({k \in 1..Len(poke[w]) : poke[w][k] = "Kill"})

\* C27: a worker whose counter is at least 1 has Idle as its last message, so
\* the round that finds every counter at 2 or more does not panic on a Busy
\* worker: it sends Kill once to each worker and ends the orchestrator, and
\* no response is sent after it.
C27_QuiescencePanicUnreachable ==
    /\ [](\A w \in Workers : current_activity[w] >= 1 => last_messages[w] = "Idle")
    /\ [](\A w \in Workers :
             Kills(w) + (IF wpc[w] = "exited" THEN 1 ELSE 0) = (IF opc = "done" THEN 1 ELSE 0))
    /\ [][
            /\ (opc = "round" /\ chan = <<>> /\ Quiescent /\ opc' # opc) =>
                   /\ opc' = "done"
                   /\ \A w \in Workers : poke'[w] = Append(poke[w], "Kill")
            /\ opc = "done" =>
                   /\ opc' = "done"
                   /\ \A w \in Workers :
                         poke'[w] = poke[w] \/ (poke[w] # <<>> /\ poke'[w] = Tail(poke[w]))
        ]_vars

\* two workers have been sent Kill after rounds in which they worked, and
\* one of them has left its loop
C27_Witness ==
    /\ opc = "done"
    /\ nthreads = 2
    /\ ncalls >= 2
    /\ \E w \in Workers : wpc[w] = "exited"
    /\ \E w \in Workers : Kills(w) = 1

\* the messages of w that are in the channel, in the order they were sent
SentBy(w) == SelectSeq(chan, LAMBDA m : m.tid = w)

\* no queue holds a Task that find_task of w could return
NothingToFind(w) ==
    /\ deque[w] = <<>>
    /\ \A v \in Workers : deque[v] = <<>>
    /\ injector = <<>>

\* C28: the protocol of a worker.  A Task starts to run either with the send
\* of Busy (the first of a burst) or out of the loop that follows a run; Busy
\* is sent only from the head of the loop, never after a Busy of the same
\* worker that is still the last in the channel; Idle is sent only after
\* find_task found every queue empty, and the worker then waits for a
\* response; a Poke leads back to find_task and only a Kill ends the loop, so
\* a worker that has left its loop or waits has an empty deque.
C28_WorkerProtocol ==
    /\ [](mode = "multi" =>
            \A w \in Workers : wpc[w] \in {"idle", "recv", "exited"} => deque[w] = <<>>)
    /\ [][
            mode = "multi" => \A w \in Workers :
               /\ (cur[w] = <<>> /\ cur'[w] # <<>>) =>
                      \/ /\ wpc[w] = "busy"
                         /\ chan' = Append(chan, Busy(w))
                         /\ cur'[w] = Started(held[w][1])
                      \/ wpc[w] = "loop"
               /\ (chan' # chan /\ chan' = Append(chan, Busy(w))) =>
                      /\ wpc[w] = "busy" /\ wpc'[w] = "run"
                      /\ SentBy(w) # <<>> => SentBy(w)[Len(SentBy(w))].act = "Idle"
               /\ (wpc'[w] = "busy" /\ wpc[w] # "busy") => wpc[w] = "find"
               /\ (wpc'[w] = "find" /\ wpc[w] # "find") =>
                      /\ wpc[w] = "recv"
                      /\ poke[w] # <<>> /\ Head(poke[w]) = "Poke"
               /\ (wpc'[w] = "idle" /\ wpc[w] # "idle") =>
                      /\ wpc[w] \in {"find", "loop"}
                      /\ NothingToFind(w)
               /\ (chan' # chan /\ chan' = Append(chan, Idle(w))) =>
                      /\ wpc[w] = "idle" /\ wpc'[w] = "recv"
               /\ (wpc'[w] = "recv" /\ wpc[w] # "recv") =>
                      chan' = Append(chan, Idle(w))
               /\ (wpc'[w] = "exited" /\ wpc[w] # "exited") =>
                      /\ wpc[w] = "recv"
                      /\ poke[w] # <<>> /\ Head(poke[w]) = "Kill"
        ]_vars

\* a worker has left its loop on Kill after a burst of two Tasks or more,
\* next to a second worker
C28_Witness ==
    /\ mode = "multi"
    /\ nthreads = 2
    /\ ncalls >= 2
    /\ \E w \in Workers : wpc[w] = "exited" /\ deque[w] = <<>>

\* C29: find_task returns the top of the local queue if that queue holds a
\* Task; otherwise the Task of the first steal that succeeds; otherwise, if
\* no steal succeeds, a Task of the injector; it goes round again while the
\* result of a turn is Retry, and returns None only after a turn in which
\* the local queue, every stealer and the injector were found Empty.
C29_FindTaskOrder ==
    LET b == out.before
        Tried == {k \in 1..Len(out.obs) : out.obs[k] # "skipped"}
        Stole == \E k \in Tried : out.obs[k] = "Success"
    IN  /\ (out.st # "pop" /\ b.deque[0] # <<>> /\ out.tries = 0) =>
               /\ out.st = "some" /\ out.from = "local"
               /\ out.task = b.deque[0][Len(b.deque[0])]
        /\ out.from = "local" => (out.tries = 0 /\ b.deque[0] # <<>>)
        /\ out.tries > 0 =>
               /\ b.deque[0] = <<>>
               /\ Stole <=> out.from = "peer"
               /\ out.from = "peer" =>
                     /\ out.st = "some"
                     /\ \E k \in Tried :
                           /\ out.obs[k] = "Success"
                           /\ \A j \in Tried : j < k => out.obs[j] # "Success"
                           /\ out.task = Head(b.deque[Stealers[k]])
                     /\ out.inj = "skipped"
               /\ (~Stole /\ out.inj = "Success") =>
                     /\ out.st = "some" /\ out.from = "injector"
                     /\ out.task = Head(b.injector)
               /\ out.from = "injector" => (~Stole /\ out.inj = "Success")
               /\ (~Stole /\ out.inj # "Success"
                     /\ (out.inj = "Retry" \/ \E k \in Tried : out.obs[k] = "Retry")) =>
                     out.st = "scan"
               /\ out.st = "none" <=>
                     /\ Tried = 1..Len(Stealers)
                     /\ \A k \in Tried : out.obs[k] = "Empty" /\ b.deque[Stealers[k]] = <<>>
                     /\ out.inj = "Empty" /\ b.injector = <<>>

\* find_task has returned a Task of the injector on its second turn, after
\* a turn in which a steal from a peer lost its race
C29_Witness ==
    /\ out.st = "some"
    /\ out.from = "injector"
    /\ out.tries = 2
    /\ \E k \in 1..Len(out.obs) : out.obs[k] = "Retry"

\* the environments with the slot id of one of them set to val
SetLocal(b, id, val) == [vars |-> Insert(b.vars, id, val), globals |-> b.globals]
SetGlobal(b, id, val) == [vars |-> b.vars, globals |-> Insert(b.globals, id, val)]

\* the environments that the call has left
EnvsAfter == [vars |-> out.r.vars, globals |-> out.r.globals]

EnvsBefore == [vars |-> out.before.vars, globals |-> out.before.globals]

\* the environment in which id has its slot, if it has one
WhereSlot(b, id) ==
    IF id \in DOMAIN b.vars THEN "local" ELSE IF id \in DOMAIN b.globals THEN "global" ELSE "none"

SlotOf(b, id) == IF id \in DOMAIN b.vars THEN b.vars[id] ELSE b.globals[id]

\* a write of val to the slot id that wrote where assign(Loc::Id) writes
WroteId(b, id, val) ==
    /\ out.r.st = "ok"
    /\ EnvsAfter = IF id \in DOMAIN b.vars \/ id = "RETURN"
                   THEN SetLocal(b, id, val) ELSE SetGlobal(b, id, val)

\* C30 as it is stated: an identifier is written locally iff it has a local
\* slot or is RETURN, globally otherwise, and nothing else changes; a field
\* is written iff the slot holds a Struct with that field, of which only
\* that field changes; any other shape aborts and leaves the environments
\* as they were.
C30_AssignAsStated ==
    out # <<>> =>
        LET b == out.before
            loc == out.loc
        IN  CASE loc.l = "Id" -> WroteId(b, loc.id, out.v) /\ out.r.solver = b.solver
              [] loc.l = "Field" /\ loc.loc.l = "Id" /\ WhereSlot(b, loc.loc.id) # "none"
                   /\ SlotOf(b, loc.loc.id).tag = "Struct"
                   /\ loc.f \in DOMAIN SlotOf(b, loc.loc.id).fields ->
                     WroteId(b, loc.loc.id,
                             VStruct([SlotOf(b, loc.loc.id).fields EXCEPT ![loc.f] = out.v]))
              [] OTHER -> out.r.st # "ok" /\ EnvsAfter = EnvsBefore

\* The slot id as get_loc_and_initialize leaves it: a slot that holds
\* Uninitialized(ty) is given the symbolic value of ty, whose constants are
\* declared in the solver; st is not "ok" if there is no such value.
Initialized(b, id) ==
    LET slot == SlotOf(b, id)
        Of(sym) ==
            IF sym.st # "ok"
            THEN [st |-> sym.st, val |-> slot, envs |-> [vars |-> b.vars, globals |-> b.globals],
                  solver |-> sym.solver]
            ELSE [st |-> "ok", val |-> sym.val,
                  envs |-> IF WhereSlot(b, id) = "local" THEN SetLocal(b, id, sym.val)
                           ELSE SetGlobal(b, id, sym.val),
                  solver |-> sym.solver]
    IN  IF slot.tag = "Uninitialized" THEN Of(symbolic(slot.ty, b.solver))
        ELSE [st |-> "ok", val |-> slot, envs |-> [vars |-> b.vars, globals |-> b.globals],
              solver |-> b.solver]

\* C30: an identifier is written locally iff it has a local slot or is
\* RETURN, globally otherwise, and nothing else changes.  For a field, the
\* slot is first initialized if it holds Uninitialized; the field is written
\* iff the slot then holds a Struct with that field, of which only that
\* field changes; any other shape aborts, and leaves the environments as
\* that initialization left them.
C30_AssignLazyInit ==
    out # <<>> =>
        LET b == out.before
            loc == out.loc
            OnSlot(i) ==
                IF i.st # "ok" THEN out.r.st = i.st /\ EnvsAfter = EnvsBefore
                ELSE IF i.val.tag = "Struct" /\ loc.f \in DOMAIN i.val.fields
                THEN /\ WroteId(b, loc.loc.id, VStruct([i.val.fields EXCEPT ![loc.f] = out.v]))
                     /\ out.r.solver = i.solver
                ELSE out.r.st = "panic" /\ EnvsAfter = i.envs
        IN  CASE loc.l = "Id" -> WroteId(b, loc.id, out.v) /\ out.r.solver = b.solver
              [] loc.l = "Field" /\ loc.loc.l = "Id" /\ WhereSlot(b, loc.loc.id) # "none" ->
                     OnSlot(Initialized(b, loc.loc.id))
              [] OTHER -> out.r.st = "panic" /\ EnvsAfter = EnvsBefore

\* a field of a global slot that held Uninitialized has been written, next
\* to a local slot that was left alone
C30_Witness ==
    /\ out # <<>>
    /\ out.loc = LocField(LocId("g"), "a")
    /\ out.r.st = "ok"
    /\ out.before.globals["g"].tag = "Uninitialized"
    /\ out.r.globals["g"].tag = "Struct"
    /\ out.r.globals["g"].fields["a"] = out.v
    /\ "p" \in DOMAIN out.r.vars


(***************************************************************************)
(* Call entry (SpecCalls).                                                 *)
(***************************************************************************)
\* The path is at a Call of a function of shared_state.functions.
AtFunctionCall(w) == AtInstr(w, "Call") /\ CurInstr(w).f \in DOMAIN Functions

\* The arguments of the Call evaluated one after the other from the left,
\* each in the environments and the solver the one before left: element k is
\* the result of the k-th evaluation.
ArgResults(w) ==
    LET args == CurInstr(w).args
        st[k \in 0..Len(args)] ==
            IF k = 0
            THEN EvOk(VUnit, CurFrame(w).vars, CurFrame(w).globals, CurSolver(w))
            ELSE eval_exp(args[k], st[k - 1].vars, st[k - 1].globals, st[k - 1].solver)
    IN  [k \in 1..Len(args) |-> st[k]]

\* The path is at End in a callee: RETURN is assigned and the stack is not
\* empty.
AtFunctionReturn(w) ==
    /\ AtInstr(w, "End")
    /\ "RETURN" \in DOMAIN CurFrame(w).vars
    /\ CurFrame(w).stack # <<>>

IsCall2 == CallEntries[entry].frame.instrs = "call2"

\* C31: call entry.  After a Call of a function of the function table whose
\* arguments evaluate, the frame has pc = 0, the instructions of the function
\* and, as its locals, exactly the parameters, parameter k bound to the value
\* of argument k, the arguments having been evaluated from left to right in
\* the caller's environments; no local of the caller is a local of the
\* callee.  The global environment goes into the callee as the caller left
\* it and comes back from the callee as the callee left it (the returned
\* value aside), so a register written on one side is read on the other: the
\* program that writes W, calls k(b, a) and returns the register G that k
\* copied from W ends with Ok(Bool(true)), and a callee that names a local of
\* its caller does not find it.
C31_CallEntry ==
    /\ [][
            \A w \in Workers :
                /\ ( /\ AtFunctionCall(w) /\ Acted(w)
                     /\ \A k \in 1..Len(CurInstr(w).args) : ArgResults(w)[k].st = "ok"
                     /\ Len(CurInstr(w).args) <= Len(Functions[CurInstr(w).f].params) ) =>
                      LET fr == CurFrame(w)
                          n == Len(CurInstr(w).args)
                          fn == Functions[CurInstr(w).f]
                          last == IF n = 0 THEN EvOk(VUnit, fr.vars, fr.globals, CurSolver(w))
                                  ELSE ArgResults(w)[n]
                          after == cur'[w][1].frame
                      IN  /\ wpc'[w] = "run"
                          /\ after.pc = 0
                          /\ after.instrs = fn.instrs
                          /\ DOMAIN after.vars = {fn.params[k][1] : k \in 1..n}
                          /\ \A k \in 1..n : after.vars[fn.params[k][1]] = ArgResults(w)[k].val
                          /\ \A id \in DOMAIN fr.vars :
                                id \in DOMAIN after.vars => \E k \in 1..n : fn.params[k][1] = id
                          /\ after.globals = last.globals
                          /\ \A r \in DOMAIN fr.globals :
                                /\ r \in DOMAIN after.globals
                                /\ fr.globals[r].tag # "Uninitialized" => after.globals[r] = fr.globals[r]
                          /\ cur'[w][1].solver = last.solver
                          /\ NoPush
                /\ (AtFunctionReturn(w) /\ Acted(w) /\ wpc'[w] = "run") =>
                      LET fr == CurFrame(w)
                          id == Head(fr.stack).loc.id
                          after == cur'[w][1].frame
                      IN  /\ DOMAIN fr.globals \subseteq DOMAIN after.globals
                          /\ \A r \in DOMAIN fr.globals :
                                (r # id \/ id \in DOMAIN after.vars) => after.globals[r] = fr.globals[r]
       ]_vars
    /\ [](IsCall2 =>
            /\ \A r \in log : r.st = "ok" /\ r.val = VBool(TRUE)
            /\ Terminated => ncalls = 1)
    /\ [](CallEntries[entry].frame.instrs = "hidden" =>
            /\ log = {}
            /\ \A w \in Workers :
                  (cur[w] # <<>> /\ CurFrame(w).instrs = "peek") => "a" \notin DOMAIN CurFrame(w).vars)

\* The program that calls k(b, a) has just entered k: p is bound to the symbol
\* of b, the first argument evaluated, and q to the symbol of a; the register
\* W written by the caller is in the global environment, and the locals of
\* the caller are held by the return continuation only.
C31_Witness ==
    /\ IsCall2
    /\ wpc[0] = "run"
    /\ CurFrame(0).instrs = "k" /\ CurFrame(0).pc = 0
    /\ CurFrame(0).vars = [p |-> VSymbolic(0), q |-> VSymbolic(1)]
    /\ CurFrame(0).globals = [HAVE_EXCEPTION |-> VBool(FALSE), W |-> VBool(TRUE)]
    /\ Len(CurFrame(0).stack) = 1
    /\ Head(CurFrame(0).stack).vars = [a |-> VSymbolic(1), b |-> VSymbolic(0)]

(***************************************************************************)
(* Where a path ends (SpecPaths).                                          *)
(***************************************************************************)
\* The results the collector is given by the step.
Reported == log' \ log

\* C32: a path is reported Ok only at call depth 0.  Whenever run returns
\* Ok the return-continuation stack is empty, and the path was at End or past
\* the last instruction of the entry function; a path that runs past the last
\* instruction of a callee goes on in its caller.
C32_OkOnlyAtDepthZero ==
    [][
        \A w \in Workers :
            /\ (wpc[w] = "run" /\ \E r \in Reported : r.st = "ok") =>
                  /\ CurFrame(w).stack = <<>>
                  /\ \/ AtInstr(w, "End")
                     \/ CurFrame(w).pc >= Len(Code[CurFrame(w).instrs])
            /\ ( /\ wpc[w] = "run" /\ Acted(w)
                 /\ CurFrame(w).pc >= Len(Code[CurFrame(w).instrs])
                 /\ CurFrame(w).stack # <<>> ) =>
                  /\ wpc'[w] = "run"
                  /\ Reported = {}
                  /\ cur'[w][1].frame.instrs = Head(CurFrame(w).stack).instrs
                  /\ cur'[w][1].frame.stack = Tail(CurFrame(w).stack)
    ]_vars

(***************************************************************************)
(* Frames of forked Tasks (Spec: every interleaving of the workers).       *)
(***************************************************************************)
\* The Tasks that wait in the injector, in a deque or in a worker's hand.
Waiting ==
    {injector[k] : k \in 1..Len(injector)}
        \cup UNION {{deque[w][k] : k \in 1..Len(deque[w])} : w \in Workers}
        \cup UNION {{held[w][k] : k \in 1..Len(held[w])} : w \in Workers}

\* C33: fork snapshot isolation.  The frame of the Task pushed at a fork is
\* the frame of the path at the Jump, after the evaluation of the condition
\* (so with the branch variable initialised to the symbol both arms test), at
\* pc + 1: same locals, globals, backjumps, instructions and return stack.
\* A Task that waits is one that was pushed, as it was pushed, whatever the
\* running paths do; and the worker that starts it, whichever it is, starts
\* from exactly that frame.
C33_ForkSnapshot ==
    /\ [][\A w \in Workers :
            LET started == cur[w] = <<>> /\ cur'[w] # <<>>
                forked == cur[w] # <<>> /\ cur'[w] # cur[w] /\ nforks' # nforks
            IN  /\ forked =>
                      LET c == CondOf(w)
                          at == CurFrame(w)
                          task == PopTask(deque'[w])
                          live == cur'[w][1].frame
                      IN  /\ c.val.tag = "Symbolic"
                          /\ \A id \in DOMAIN at.vars \cup DOMAIN at.globals :
                                CurInstr(w).e = EId(id) =>
                                    IF id \in DOMAIN at.vars THEN c.vars[id] = c.val
                                    ELSE c.globals[id] = c.val
                          /\ task.frame.vars = c.vars
                          /\ task.frame.globals = c.globals
                          /\ task.frame.backjumps = at.backjumps
                          /\ task.frame.instrs = at.instrs
                          /\ task.frame.stack = at.stack
                          /\ task.frame.pc = at.pc + 1
                          /\ live.vars = task.frame.vars
                          /\ live.globals = task.frame.globals
                          /\ pushed' = pushed \cup {task}
                /\ started =>
                      /\ cur'[w][1].task \in pushed
                      /\ cur'[w][1].task \in Waiting
                      /\ cur'[w][1].frame = cur'[w][1].task.frame
                /\ (cur[w] # <<>> /\ cur'[w] # <<>>) => cur'[w][1].task = cur[w][1].task
        ]_vars
    /\ [](Waiting \subseteq pushed)

\* The two arms of the first fork of fork2 are running on two workers.  The
\* live arm has since assigned RETURN; the forked Task, started by the other
\* worker, has the locals of the Jump: x and y initialised, no RETURN.
C33_Witness ==
    /\ mode = "multi" /\ nthreads = 2
    /\ \E a, b \in Workers :
          /\ a # b /\ cur[a] # <<>> /\ cur[b] # <<>>
          /\ CurFrame(a).instrs = "fork2" /\ "RETURN" \in DOMAIN CurFrame(a).vars
          /\ cur[a][1].task.checkpoint.trace = <<>>
          /\ cur[b][1].task.frame.pc = 3
          /\ CurFrame(b) = cur[b][1].task.frame
          /\ CurFrame(b).vars = [x |-> VSymbolic(1), y |-> VSymbolic(0)]

(***************************************************************************)
(* Variables written before they are read (SpecPaths).                     *)
(***************************************************************************)
\* An expression that evaluates to a concrete value without a lookup.
IsLiteral(exp) == exp.e \in {"Bool", "I64", "Unit", "Bits", "String"}

\* The solver traces of the running paths, the waiting Tasks and the
\* collected paths.
AllTraces ==
    {cur[w][1].solver.trace : w \in {v \in Workers : cur[v] # <<>>}}
        \cup {t.checkpoint.trace : t \in Waiting}
        \cup {r.trace : r \in log}

\* C34: a variable written before it is read never reaches the solver.  A
\* Copy or an Init of a concrete value to a local that is still Uninitialized
\* leaves the solver as it is and the local concrete; from then on no step
\* that declares a constant changes a local that holds a concrete value.  In
\* the program that declares c, x and n, writes x and n and then forks on c,
\* every path declares one constant, the one of c, and x and n are concrete
\* wherever they are read.
C34_WrittenBeforeRead ==
    /\ [][\A w \in Workers :
            LET fr == CurFrame(w)
                ins == CurInstr(w)
                after == cur'[w][1].frame
                write == /\ \/ ins.i = "Init"
                            \/ ins.i = "Copy" /\ ins.loc.l = "Id"
                         /\ IsLiteral(ins.e)
                target == IF ins.i = "Init" THEN ins.v ELSE ins.loc.id
            IN  (wpc[w] = "run" /\ wpc'[w] = "run" /\ Acted(w)
                   /\ fr.pc < Len(Code[fr.instrs])) =>
                    /\ ( /\ write
                         /\ target \in DOMAIN fr.vars
                         /\ fr.vars[target].tag = "Uninitialized" ) =>
                            /\ cur'[w][1].solver = CurSolver(w)
                            /\ after.vars[target] = eval_exp(ins.e, fr.vars, fr.globals, CurSolver(w)).val
                            /\ after.vars[target].tag \notin {"Uninitialized", "Symbolic"}
                    /\ (NumDeclared(cur'[w][1].solver.trace) > NumDeclared(CurSolver(w).trace)) =>
                            \A id \in DOMAIN fr.vars \cap DOMAIN after.vars :
                                (/\ fr.vars[id].tag \notin {"Uninitialized", "Symbolic", "Struct", "Vector"}
                                 /\ fr.instrs = after.instrs
                                 /\ ~(ins.i = "Copy" /\ ins.loc = LocId(id))
                                 /\ ~(ins.i \in {"Init", "Decl"} /\ ins.v = id)) =>
                                    after.vars[id] = fr.vars[id]
        ]_vars
    /\ [](IsProgram("written") =>
            /\ \A t \in AllTraces :
                  /\ NumDeclared(t) <= 1
                  /\ \A k \in 1..Len(t) : t[k].def = "DeclareConst" => t[k] = DeclareConst(0, SortBool)
            /\ \A w \in Workers :
                  (cur[w] # <<>> /\ CurFrame(w).pc >= 5) =>
                      /\ CurFrame(w).vars["x"].tag = "Bool"
                      /\ CurFrame(w).vars["n"] = VI64(3)
                      /\ CurFrame(w).vars["c"].tag = "Uninitialized"
                            => CurSolver(w).trace = <<>>
            /\ \A r \in log : r.st = "ok" /\ r.val = VI64(3))

\* Both paths of the program have been collected: one declaration, of the
\* boolean c, in each trace.
C34_Witness ==
    /\ IsProgram("written") /\ Terminated
    /\ {r.trace : r \in log} =
          {<<DeclareConst(0, SortBool), AssertDef(SmtVar(0))>>,
           <<DeclareConst(0, SortBool), AssertDef(SmtNot(SmtVar(0)))>>}

(***************************************************************************)
(* taints (SpecTaints).                                                    *)
(***************************************************************************)
\* dependencies(sym): the least set that holds the symbol and, with a symbol,
\* every symbol used in its definition.
DepsOf(events, symbol) ==
    LET Uses(s) == UNION {Symbols(events[k].def.e) :
                            k \in {j \in 1..Len(events) :
                                     /\ events[j].ev = "Smt"
                                     /\ events[j].def.def = "DefineConst"
                                     /\ events[j].def.v = s}}
        Closed == {T \in SUBSET {S(n) : n \in 0..3} :
                      symbol \in T /\ \A s \in T : Uses(s) \subseteq T}
    IN  CHOOSE T \in Closed : \A U \in Closed : T \subseteq U

\* C35: taints(sym, events) returns exactly the registers r with a
\* ReadReg(r, _, value) whose value holds, at any depth, a symbol of
\* dependencies(sym), and memory = true iff the value field of some ReadMem is
\* a Symbolic of dependencies(sym); events of the other kinds do not
\* contribute: the result is that of the ReadReg and ReadMem events alone.
C35_Taints ==
    out.st = "done" =>
        LET deps == DepsOf(data.xs, data.symbol)
            reads == SelectSeq(data.xs, LAMBDA e : e.ev \in {"ReadReg", "ReadMem"})
            alone == taints(from_events(data.xs), data.symbol, reads)
        IN  /\ out.taints = {r \in {"R", "P", "Q", "W"} :
                                \E k \in 1..Len(data.xs) :
                                    /\ data.xs[k].ev = "ReadReg"
                                    /\ data.xs[k].n = r
                                    /\ Symbols(data.xs[k].value) \cap deps # {}}
            /\ out.memory = (\E k \in 1..Len(data.xs), s \in deps :
                                /\ data.xs[k].ev = "ReadMem"
                                /\ data.xs[k].value = VSymbolic(s))
            /\ out.taints = alone.taints /\ out.memory = alone.memory

\* taints has returned a register whose value holds a dependency two
\* definitions away inside a vector of a struct, and memory = true, from a list
\* that also writes a register and memory with that symbol.
C35_Witness ==
    /\ mode = "taints" /\ out.st = "done"
    /\ data.symbol = S(3)
    /\ out.taints = {"R"} /\ out.memory
    /\ \E k \in 1..Len(data.xs) : data.xs[k].ev = "Smt" /\ data.xs[k].def.v = S(3)

(***************************************************************************)
(* What remove_unused keeps (SpecKinds, SpecSimplify).                     *)
(***************************************************************************)
RECURSIVE IsSubsequence(_, _)
\* a is b with some of its elements left out.
IsSubsequence(a, b) ==
    IF a = <<>> THEN TRUE
    ELSE IF b = <<>> THEN FALSE
    ELSE IF Head(a) = Head(b) THEN IsSubsequence(Tail(a), Tail(b))
    ELSE IsSubsequence(a, Tail(b))

\* The events that are not declarations or definitions of a constant.
Others(events) == SelectSeq(events, LAMBDA e : ~IsDefinition(e))

\* C36: remove_unused only deletes declarations and keeps the order.  After
\* every pass the events are a subsequence of the events given, in the same
\* order, and the events that are not a DeclareConst or a DefineConst are all
\* there, unchanged.
C36_OnlyDeclarationsDeleted ==
    /\ IsSubsequence(out.events, data.xs)
    /\ Others(out.events) = Others(data.xs)
    /\ out.call = 2 => IsSubsequence(out.events, out.first)

\* remove_unused has returned after deleting a declaration and a definition
\* from a list that holds events of two other kinds, one of them before and
\* one after what was deleted.
C36_Witness ==
    /\ mode = "simplify" /\ out.st = "done" /\ out.call = 1
    /\ Len(data.xs) = 4 /\ Len(out.events) = 2
    /\ out.passes = 3
    /\ ~IsDefinition(data.xs[1]) /\ ~IsDefinition(data.xs[4])
    /\ data.xs[1] # data.xs[4]

\* The symbols that the events declare or define.
DeclaredIn(events) ==
    {events[k].def.v : k \in {j \in 1..Len(events) : IsDefinition(events[j])}}

\* C37: remove_unused never orphans a symbol.  Every symbol that occurs in an
\* event of the list that is returned, anywhere in it, the value field of a
\* ReadMem or a WriteMem included, and that the list given declares or
\* defines, is declared or defined in the list that is returned.
C37_NoOrphans ==
    out.st = "done" =>
        \A k \in 1..Len(out.events) :
            \A s \in Symbols(out.events[k]) :
                s \in DeclaredIn(data.xs) => s \in DeclaredIn(out.events)

(***************************************************************************)
(* The extension accessors (SpecAccessor).                                 *)
(***************************************************************************)
\* The S-expression an event view yields: view().and_then(to_sexp).
Yields(self) == IF view_of(self).some THEN to_sexp(view_of(self).x) ELSE None

RECURSIVE Unsigned(_)
\* The number a bitvector of at most 16 bits stands for, and the number it
\* stands for as a two's complement.
Unsigned(bv) == IF bv = <<>> THEN 0 ELSE bv[1] + 2 * Unsigned(Tail(bv))
Signed(bv) ==
    IF bv # <<>> /\ bv[Len(bv)] = 1 THEN Unsigned(bv) - Pow2(Len(bv)) ELSE Unsigned(bv)

PendingPokes(w) == {k \in DOMAIN poke[w] : poke[w][k] = "Poke"}

\* C39: at most one unconsumed Poke is pending per worker: in every reachable
\* state the poke channel of each worker holds at most one Poke.
C39_OnePokePending ==
    \A w \in Workers : Cardinality(PendingPokes(w)) <= 1

(***************************************************************************)
(* Path conditions.                                                        *)
(***************************************************************************)
\* The assertions of the initial Task's checkpoint are satisfiable.
InitialSat == IsSat(Entries[entry].checkpoint.trace)

\* C40: path conditions stay satisfiable.  When the checkpoint of the initial
\* Task is satisfiable, the checkpoint of every Task pushed by a fork is
\* satisfiable, the solver of every running path is satisfiable (so it is
\* after every Jump), the path every collected result ended with is
\* satisfiable, and no path ends with Dead.
C40_PathConditionsSat ==
    InitialSat =>
        /\ \A t \in pushed : IsSat(t.checkpoint.trace)
        /\ \A w \in Workers : cur[w] # <<>> => IsSat(CurSolver(w).trace)
        /\ \A r \in log : IsSat(r.trace) /\ ~(r.st = "err" /\ r.err = "Dead")

\* Two workers have finished a program with two true forks from a
\* satisfiable checkpoint: three Tasks were pushed and four paths collected,
\* each under its own two assertions.
C40_Witness ==
    /\ InitialSat /\ Terminated /\ mode = "multi" /\ nthreads = 2
    /\ nforks >= 2 /\ Cardinality(pushed) >= 3
    /\ \E r \in log : Cardinality({k \in DOMAIN r.trace : r.trace[k].def = "Assert"}) >= 2
====
